---- MODULE Spec2Model ----
(***************************************************************************)
(* Model of two programs of the repository.                                *)
(*                                                                         *)
(* The chat relay of ChatServer (src/ChatServer/src/shared/api.go, package *)
(* main, lines 96-193): the Session Table (server.Users), the id counter   *)
(* (server.NextId), the Room Registry (server.Rooms) and one task per      *)
(* connection attempt running ManageConnection.  AcceptConnection and      *)
(* ManageConnection are translated statement by statement from the source. *)
(* The request handlers that run between the defer (line 169) and the      *)
(* return (line 171) of ManageConnection, the read loop and the outbound   *)
(* write path are not part of the source at hand; they are modelled from   *)
(* spec.md sections 2-7 and DESIGN.md and are marked as such where they    *)
(* are defined.                                                            *)
(*                                                                         *)
(* The URL shortener (src/URL-Shortener/src/url_shortener/server.go): the  *)
(* table aliases, Server.nextAlias, Server.nextAliasLock and one goroutine *)
(* per request running Shorten (with ShortenAutomatic and ShortenCustom),  *)
(* Expand or Analytics, translated statement by statement, and the reboot  *)
(* of the server on the database file it left (NewServer, SetNextAlias).   *)
(***************************************************************************)
EXTENDS Naturals, Sequences, FiniteSets, TLC

VARIABLES
    NextId,        \* Server.NextId                              (api.go:128)
    Users,         \* Server.Users : id -> UserData              (api.go:131)
    UsersLock,     \* Server.UsersLock : Nil or the holding task (api.go:132)
    Rooms,         \* Server.Rooms : room id -> RoomData         (api.go:129)
    RoomsLock,     \* Server.RoomsLock : Nil or the holding task (api.go:130)
    mapWriting,    \* a write of the map server.Users is in progress (line 160)
    crashed,       \* the runtime has stopped the process (fatal error)
    pc,            \* per task: the statement it is about to execute
    Id,            \* per task: the local variable Id (lines 146, 165)
    Data,          \* per task: the local variable Data (line 149)
    err,           \* per task: the error returned by AcceptConnection
    conn,          \* per websocket connection: "none", "open" or "closed"
    deferred,      \* per task: receiver of the deferred Close (line 169)
    sent,          \* per websocket connection: frames written to the client
    req,           \* per task: room of the Join in progress
    ops,           \* number of requests handled so far, by all sessions
    usersAtEntry,  \* per task: server.Users when it acquired UsersLock
    registered,    \* ids in the order in which they entered server.Users
    lastJoined,    \* per task: room of its last completed Join, "" after Leave
    inbox,         \* per task: frames received from the client, not yet read
    arrived,       \* per task: every frame received, in arrival order
    handled,       \* per task: the frames dispatched, in dispatch order
    pending,       \* per task: the frames it has yet to send, with their channel
    chanq,         \* per session: the frames buffered in UserData.Channel
    wbuf,          \* per session: the frame its writer is writing to the client
    aliases,       \* URL shortener: table aliases, Alias -> row
    nextAlias,     \* URL shortener: Server.nextAlias   (url_shortener/server.go:63)
    nextAliasLock, \* URL shortener: Server.nextAliasLock, Nil or the holder (:70)
    rpc,           \* per shorten request: the statement it is about to execute
    rreq,          \* per shorten request: the decoded ShortenRequest
    ralias,        \* per shorten request: the local variable alias (line 316)
    rret,          \* per shorten request: what ShortenAutomatic/Custom returned
    rresp,         \* per shorten request: the response written to the client
    finished,      \* requests in the order in which ShortenAutomatic returned
    gpc,           \* per GET request: the statement it is about to execute
    greq,          \* per GET request: its endpoint, method and alias
    gurl,          \* per GET request: the local variable url (Expand, line 522)
    gresp,         \* per GET request: the response written to the client
    gupdated,      \* GET requests whose UPDATE of Expansions has executed
    boots,         \* number of times the server has been booted again
    riter,         \* per shorten request: INSERTs tried by ShortenAutomatic
    rrows,         \* per shorten request: rows of the table when it locked
    rinserted      \* shorten requests whose INSERT has succeeded

chatVars == <<NextId, Users, UsersLock, Rooms, RoomsLock, mapWriting, crashed,
              pc, Id, Data, err, conn, deferred, sent, req, ops, usersAtEntry,
              registered, lastJoined>>

\* The inbound path of a session.
pipeVars == <<inbox, arrived, handled, pending, chanq, wbuf>>

\* The state of the URL shortener.
urlVars == <<aliases, nextAlias, nextAliasLock, rpc, rreq, ralias, rret,
             rresp, finished>>

\* The expand and analytics requests of the URL shortener, and its reboots.
svcVars == <<gpc, greq, gurl, gresp, gupdated, boots>>

\* What is recorded of the INSERTs of the shorten requests.
loopVars == <<riter, rrows, rinserted>>

vars == <<chatVars, pipeVars, urlVars, svcVars, loopVars>>

connVars == <<NextId, Users, UsersLock, mapWriting, Id, Data, err,
              usersAtEntry, registered>>
roomVars == <<Rooms, RoomsLock, req, lastJoined>>

(***************************************************************************)
(* Bounds of the model.                                                    *)
(***************************************************************************)
MaxConns == 2      \* connection attempts (one ManageConnection task each)
MaxOps == 3        \* requests handled in all, by all sessions
MaxReqs == 3       \* shorten requests of the URL shortener
MaxFaults == 1     \* database statements that fail for an unexpected reason
MaxGets == 3       \* expand and analytics requests of the URL shortener
MaxBoots == 1      \* reboots of the URL shortener

Conns == 1..MaxConns
Reqs == 1..MaxReqs
Gets == 1..MaxGets

\* The capacity of UserData.Channel: make(chan string) makes an unbuffered
\* channel (line 151).
ChannelCap == 0
RoomIds == {"a", "b"}
Nil == 0

(***************************************************************************)
(* strconv.Itoa: the decimal string of a non-negative int.                 *)
(***************************************************************************)
Digit == <<"0", "1", "2", "3", "4", "5", "6", "7", "8", "9">>

RECURSIVE Itoa(_)
Itoa(n) == IF n < 10 THEN Digit[n + 1]
           ELSE Itoa(n \div 10) \o Digit[(n % 10) + 1]

(***************************************************************************)
(* UserData (lines 113-118) and its zero value, which a map lookup of a    *)
(* missing key returns.                                                    *)
(***************************************************************************)
UserData(id, room, connection, channel) ==
    [Id |-> id, Room |-> room, Connection |-> connection, Channel |-> channel]

ZeroUserData == UserData("", "", Nil, Nil)

LookupUser(id) == IF id \in DOMAIN Users THEN Users[id] ELSE ZeroUserData

(***************************************************************************)
(* SystemMessage (lines 16-23).                                            *)
(***************************************************************************)
SystemMessage(action, userId, room, message, rooms, participants) ==
    [action |-> action, user_id |-> userId, room |-> room,
     message |-> message, rooms |-> rooms, participants |-> participants]

\* The failure message of DESIGN.md: action "error" and a text.
ErrorFrame(text) == SystemMessage("error", "", "", text, {}, <<>>)

(***************************************************************************)
(* The map ACTIONS of package shared (lines 5-14): the recognised action   *)
(* values.                                                                 *)
(***************************************************************************)
Actions == {"connection", "join", "leave", "error", "private_message",
            "room_message", "rooms", "participants"}

(***************************************************************************)
(* ReadJSON (lines 136-140): the next inbound frame decoded into a         *)
(* SystemMessage.  A frame is given by whether it is a JSON object and by *)
(* the value of its action field; a frame that is no JSON object yields    *)
(* the zero SystemMessage and an error.                                    *)
(***************************************************************************)
RawFrame(json, action) == [json |-> json, action |-> action]

ReadJSON(raw) ==
    IF raw.json
    THEN [Msg |-> SystemMessage(raw.action, "", "", "", {}, <<>>), err |-> FALSE]
    ELSE [Msg |-> SystemMessage("", "", "", "", {}, <<>>), err |-> TRUE]

(***************************************************************************)
(* sync.Mutex: Lock returns only when no task holds the mutex.             *)
(***************************************************************************)
UsersLockFree == UsersLock = Nil

(***************************************************************************)
(* URL shortener (package url_shortener): ShortenRequest and the triple    *)
(* ShortenAutomatic and ShortenCustom return; the HTTP response; a row of  *)
(* the table aliases (URL, Expansions, Automatic; the key is Alias).       *)
(***************************************************************************)
ShortenRequest(url, alias) == [Url |-> url, Alias |-> alias]

Returned(alias, errMsg, error) == [alias |-> alias, err_msg |-> errMsg, err |-> error]

Response(status, url, alias, message) ==
    [status |-> status, Url |-> url, Alias |-> alias, message |-> message]

NoResponse == Response(0, "", "", "")

Row(url, expansions, automatic) ==
    [URL |-> url, Expansions |-> expansions, Automatic |-> automatic]

INTERNAL_ERROR_MESSAGE == "Unexpected Internal Server Error"
DUPLICATE_URL_VIOLATION == "UNIQUE constraint failed: aliases.URL"
DUPLICATE_ALIAS_VIOLATION == "UNIQUE constraint failed: aliases.Alias"

\* A request on the expand/ or analytics/ endpoint: the method of the
\* request and the alias that follows the endpoint in its path.
GetRequest(kind, method, alias) ==
    [kind |-> kind, method |-> method, alias |-> alias]

\* The error of a database statement that fails for another reason.
OtherDbError == "database is locked"

Init ==
    /\ NextId = 0
    /\ Users = <<>>
    /\ UsersLock = Nil
    /\ Rooms = <<>>
    /\ RoomsLock = Nil
    /\ mapWriting = FALSE
    /\ crashed = FALSE
    /\ pc = [c \in Conns |-> "lock"]
    /\ Id = [c \in Conns |-> ""]
    /\ Data = [c \in Conns |-> ZeroUserData]
    /\ err = [c \in Conns |-> FALSE]
    /\ conn = [c \in Conns |-> "none"]
    /\ deferred = [c \in Conns |-> Nil]
    /\ sent = [c \in Conns |-> <<>>]
    /\ req = [c \in Conns |-> ""]
    /\ ops = 0
    /\ usersAtEntry = [c \in Conns |-> <<>>]
    /\ registered = <<>>
    /\ lastJoined = [c \in Conns |-> ""]
    /\ inbox = [c \in Conns |-> <<>>]
    /\ arrived = [c \in Conns |-> <<>>]
    /\ handled = [c \in Conns |-> <<>>]
    /\ pending = [c \in Conns |-> <<>>]
    /\ chanq = [c \in Conns |-> <<>>]
    /\ wbuf = [c \in Conns |-> <<>>]
    /\ aliases = <<>>
    /\ nextAlias = 0
    /\ nextAliasLock = Nil
    /\ rpc = [t \in Reqs |-> "idle"]
    /\ rreq = [t \in Reqs |-> ShortenRequest("", "")]
    /\ ralias = [t \in Reqs |-> ""]
    /\ rret = [t \in Reqs |-> Returned("", "", "")]
    /\ rresp = [t \in Reqs |-> NoResponse]
    /\ finished = <<>>
    /\ gpc = [g \in Gets |-> "idle"]
    /\ greq = [g \in Gets |-> GetRequest("", "", "")]
    /\ gurl = [g \in Gets |-> ""]
    /\ gresp = [g \in Gets |-> NoResponse]
    /\ gupdated = {}
    /\ boots = 0
    /\ riter = [t \in Reqs |-> 0]
    /\ rrows = [t \in Reqs |-> 0]
    /\ rinserted = {}

(***************************************************************************)
(* AcceptConnection, lines 142-162.                                        *)
(***************************************************************************)
\* AcceptLock without the mutual exclusion of UsersLock.
AcceptLock_NoMutex(c) ==
    /\ ~crashed
    /\ UNCHANGED <<pipeVars, urlVars, svcVars, loopVars>>
    /\ pc[c] = "lock"
    /\ UsersLock' = c
    /\ usersAtEntry' = [usersAtEntry EXCEPT ![c] = Users]
    /\ pc' = [pc EXCEPT ![c] = "itoa"]
    /\ UNCHANGED <<NextId, Users, mapWriting, Id, Data, err, registered>>
    /\ UNCHANGED <<roomVars, crashed, conn, deferred, sent, ops>>

\* line 143: server.UsersLock.Lock()
AcceptLock(c) ==
    /\ ~crashed
    /\ UNCHANGED <<pipeVars, urlVars, svcVars, loopVars>>
    /\ pc[c] = "lock"
    /\ UsersLockFree
    /\ UsersLock' = c
    /\ usersAtEntry' = [usersAtEntry EXCEPT ![c] = Users]
    /\ pc' = [pc EXCEPT ![c] = "itoa"]
    /\ UNCHANGED <<NextId, Users, mapWriting, Id, Data, err, registered>>
    /\ UNCHANGED <<roomVars, crashed, conn, deferred, sent, ops>>

\* line 146: Id := strconv.Itoa(server.NextId)
AcceptItoa(c) ==
    /\ ~crashed
    /\ UNCHANGED <<pipeVars, urlVars, svcVars, loopVars>>
    /\ pc[c] = "itoa"
    /\ Id' = [Id EXCEPT ![c] = Itoa(NextId)]
    /\ pc' = [pc EXCEPT ![c] = "inc"]
    /\ UNCHANGED <<NextId, Users, UsersLock, mapWriting, Data, err,
                   usersAtEntry, registered>>
    /\ UNCHANGED <<roomVars, crashed, conn, deferred, sent, ops>>

\* line 147: server.NextId += 1
AcceptInc(c) ==
    /\ ~crashed
    /\ UNCHANGED <<pipeVars, urlVars, svcVars, loopVars>>
    /\ pc[c] = "inc"
    /\ NextId' = NextId + 1
    /\ pc' = [pc EXCEPT ![c] = "upgrade"]
    /\ UNCHANGED <<Users, UsersLock, mapWriting, Id, Data, err,
                   usersAtEntry, registered>>
    /\ UNCHANGED <<roomVars, crashed, conn, deferred, sent, ops>>

\* AcceptUpgradeOk with one channel shared by all sessions instead of a
\* fresh make(chan string).
AcceptUpgradeOk_SharedChannel(c) ==
    /\ ~crashed
    /\ UNCHANGED <<pipeVars, urlVars, svcVars, loopVars>>
    /\ pc[c] = "upgrade"
    /\ Data' = [Data EXCEPT ![c] = UserData(Id[c], "", c, 1)]
    /\ conn' = [conn EXCEPT ![c] = "open"]
    /\ pc' = [pc EXCEPT ![c] = "store"]
    /\ UNCHANGED <<NextId, Users, UsersLock, mapWriting, Id, err,
                   usersAtEntry, registered>>
    /\ UNCHANGED <<roomVars, crashed, deferred, sent, ops>>

\* lines 149-155, handshake succeeds: Data is built with a fresh channel and
\* the connection Upgrade returns (both named after the attempt).
AcceptUpgradeOk(c) ==
    /\ ~crashed
    /\ UNCHANGED <<pipeVars, urlVars, svcVars, loopVars>>
    /\ pc[c] = "upgrade"
    /\ Data' = [Data EXCEPT ![c] = UserData(Id[c], "", c, c)]
    /\ conn' = [conn EXCEPT ![c] = "open"]
    /\ pc' = [pc EXCEPT ![c] = "store"]
    /\ UNCHANGED <<NextId, Users, UsersLock, mapWriting, Id, err,
                   usersAtEntry, registered>>
    /\ UNCHANGED <<roomVars, crashed, deferred, sent, ops>>

\* AcceptUpgradeFail with the session stored before the error is looked at.
AcceptUpgradeFail_Registers(c) ==
    /\ ~crashed
    /\ UNCHANGED <<pipeVars, urlVars, svcVars, loopVars>>
    /\ pc[c] = "upgrade"
    /\ Data' = [Data EXCEPT ![c] = UserData(Id[c], "", Nil, c)]
    /\ Users' = [k \in DOMAIN Users \cup {Id[c]} |->
                    IF k = Id[c] THEN UserData(Id[c], "", Nil, c) ELSE Users[k]]
    /\ err' = [err EXCEPT ![c] = TRUE]
    /\ pc' = [pc EXCEPT ![c] = "ret_err"]
    /\ UNCHANGED <<NextId, UsersLock, mapWriting, Id, usersAtEntry, registered>>
    /\ UNCHANGED <<roomVars, crashed, conn, deferred, sent, ops>>

\* lines 149-156, handshake fails: Upgrade returns a nil connection and an
\* error.
AcceptUpgradeFail(c) ==
    /\ ~crashed
    /\ UNCHANGED <<pipeVars, urlVars, svcVars, loopVars>>
    /\ pc[c] = "upgrade"
    /\ Data' = [Data EXCEPT ![c] = UserData(Id[c], "", Nil, c)]
    /\ err' = [err EXCEPT ![c] = TRUE]
    /\ pc' = [pc EXCEPT ![c] = "ret_err"]
    /\ UNCHANGED <<NextId, Users, UsersLock, mapWriting, Id,
                   usersAtEntry, registered>>
    /\ UNCHANGED <<roomVars, crashed, conn, deferred, sent, ops>>

\* AcceptReturnErr without the deferred Unlock: the error path returns with
\* UsersLock held.
AcceptReturnErr_KeepsLock(c) ==
    /\ ~crashed
    /\ UNCHANGED <<pipeVars, urlVars, svcVars, loopVars>>
    /\ pc[c] = "ret_err"
    /\ pc' = [pc EXCEPT ![c] = "failed"]
    /\ UNCHANGED <<NextId, Users, UsersLock, mapWriting, Id, Data, err,
                   usersAtEntry, registered>>
    /\ UNCHANGED <<roomVars, crashed, conn, deferred, sent, ops>>

\* line 157 with the deferred Unlock of line 144, then lines 166-167 of
\* ManageConnection: return err.
AcceptReturnErr(c) ==
    /\ ~crashed
    /\ UNCHANGED <<pipeVars, urlVars, svcVars, loopVars>>
    /\ pc[c] = "ret_err"
    /\ UsersLock' = Nil
    /\ pc' = [pc EXCEPT ![c] = "failed"]
    /\ UNCHANGED <<NextId, Users, mapWriting, Id, Data, err,
                   usersAtEntry, registered>>
    /\ UNCHANGED <<roomVars, crashed, conn, deferred, sent, ops>>

\* line 160, server.Users[Id] = Data: the map write begins.
AcceptStoreBegin(c) ==
    /\ ~crashed
    /\ UNCHANGED <<pipeVars, urlVars, svcVars, loopVars>>
    /\ pc[c] = "store"
    /\ mapWriting' = TRUE
    /\ pc' = [pc EXCEPT ![c] = "storing"]
    /\ UNCHANGED <<NextId, Users, UsersLock, Id, Data, err,
                   usersAtEntry, registered>>
    /\ UNCHANGED <<roomVars, crashed, conn, deferred, sent, ops>>

\* AcceptStoreEnd that stores the session under the key of the next id.
AcceptStoreEnd_KeyedByNextId(c) ==
    /\ ~crashed
    /\ UNCHANGED <<pipeVars, urlVars, svcVars, loopVars>>
    /\ pc[c] = "storing"
    /\ Users' = [k \in DOMAIN Users \cup {Itoa(NextId)} |->
                    IF k = Itoa(NextId) THEN Data[c] ELSE Users[k]]
    /\ registered' = Append(registered, Id[c])
    /\ mapWriting' = FALSE
    /\ pc' = [pc EXCEPT ![c] = "ret_ok"]
    /\ UNCHANGED <<NextId, UsersLock, Id, Data, err, usersAtEntry>>
    /\ UNCHANGED <<roomVars, crashed, conn, deferred, sent, ops>>

\* line 160: the map write completes.
AcceptStoreEnd(c) ==
    /\ ~crashed
    /\ UNCHANGED <<pipeVars, urlVars, svcVars, loopVars>>
    /\ pc[c] = "storing"
    /\ Users' = [k \in DOMAIN Users \cup {Id[c]} |->
                    IF k = Id[c] THEN Data[c] ELSE Users[k]]
    /\ registered' = Append(registered, Id[c])
    /\ mapWriting' = FALSE
    /\ pc' = [pc EXCEPT ![c] = "ret_ok"]
    /\ UNCHANGED <<NextId, UsersLock, Id, Data, err, usersAtEntry>>
    /\ UNCHANGED <<roomVars, crashed, conn, deferred, sent, ops>>

\* line 161 with the deferred Unlock of line 144.
AcceptReturnOk(c) ==
    /\ ~crashed
    /\ UNCHANGED <<pipeVars, urlVars, svcVars, loopVars>>
    /\ pc[c] = "ret_ok"
    /\ UsersLock' = Nil
    /\ pc' = [pc EXCEPT ![c] = "defer"]
    /\ UNCHANGED <<NextId, Users, mapWriting, Id, Data, err,
                   usersAtEntry, registered>>
    /\ UNCHANGED <<roomVars, crashed, conn, deferred, sent, ops>>

(***************************************************************************)
(* ManageConnection, lines 164-172.                                        *)
(***************************************************************************)
\* line 169: defer server.Users[Id].Connection.Close().  The receiver is
\* evaluated now, by a map read that holds no lock; no map write is in
\* progress.
ManageDefer(c) ==
    /\ ~crashed
    /\ UNCHANGED <<pipeVars, urlVars, svcVars, loopVars>>
    /\ pc[c] = "defer"
    /\ ~mapWriting
    /\ deferred' = [deferred EXCEPT ![c] = LookupUser(Id[c]).Connection]
    /\ pc' = [pc EXCEPT ![c] = "serve"]
    /\ UNCHANGED <<connVars, roomVars, crashed, conn, sent, ops>>

\* line 169 while another task is inside the map write of line 160: a data
\* race.  The read may still find the entry, may miss it and yield the zero
\* UserData (a nil connection), or the runtime detects the concurrent map
\* access and stops the process.
ManageDeferRace(c) ==
    /\ ~crashed
    /\ UNCHANGED <<pipeVars, urlVars, svcVars, loopVars>>
    /\ pc[c] = "defer"
    /\ mapWriting
    /\ \/ /\ deferred' = [deferred EXCEPT ![c] = LookupUser(Id[c]).Connection]
          /\ pc' = [pc EXCEPT ![c] = "serve"]
          /\ UNCHANGED crashed
       \/ /\ deferred' = [deferred EXCEPT ![c] = ZeroUserData.Connection]
          /\ pc' = [pc EXCEPT ![c] = "serve"]
          /\ UNCHANGED crashed
       \/ /\ crashed' = TRUE
          /\ UNCHANGED <<deferred, pc>>
    /\ UNCHANGED <<connVars, roomVars, conn, sent, ops>>

\* line 171: return nil, which runs the deferred Close.  Close on a nil
\* connection panics and closes nothing.
ManageReturn(c) ==
    /\ ~crashed
    /\ UNCHANGED <<pipeVars, urlVars, svcVars, loopVars>>
    /\ pc[c] = "serve"
    /\ conn' = IF deferred[c] = Nil THEN conn
               ELSE [conn EXCEPT ![deferred[c]] = "closed"]
    /\ pc' = [pc EXCEPT ![c] = "done"]
    /\ UNCHANGED <<connVars, roomVars, crashed, deferred, sent, ops>>

(***************************************************************************)
(* RoomData (lines 120-125); Participants is a slice of user ids.          *)
(***************************************************************************)
RoomData(id, participants) == [Id |-> id, Participants |-> participants]

Members(rooms, r) ==
    IF r \in DOMAIN rooms
    THEN {rooms[r].Participants[i] : i \in 1..Len(rooms[r].Participants)}
    ELSE {}

(***************************************************************************)
(* The request handlers of a connected session.  The source at hand ends   *)
(* ManageConnection right after the defer; the handlers below are modelled *)
(* from spec.md sections 4.2, 5 and 7 and from DESIGN.md (Server Behavior, *)
(* Communication API).  The registry is guarded by Server.RoomsLock, the   *)
(* coarse registry-wide lock of spec.md section 5.                         *)
(***************************************************************************)
\* The registry lock taken without waiting for its holder.
RoomsLockFree_Ignored == TRUE

RoomsLockFree == RoomsLock = Nil

\* The connection a frame for user id is written to.
Handle(id) == LookupUser(id).Connection

\* sent after a frame has been written to every open connection in handles:
\* ownFrame to the connection own (the requester's), otherFrame to the rest.
Deliver(handles, own, ownFrame, otherFrame) ==
    [h \in Conns |->
        IF h \in handles /\ conn[h] = "open"
        THEN Append(sent[h], IF h = own THEN ownFrame ELSE otherFrame)
        ELSE sent[h]]

\* The registry after user id is taken out of room r; a room left without
\* members is deleted.
RemoveMember(rooms, r, id) ==
    LET rest == SelectSeq(rooms[r].Participants, LAMBDA p : p # id)
    IN  IF rest = <<>>
        THEN [k \in DOMAIN rooms \ {r} |-> rooms[k]]
        ELSE [rooms EXCEPT ![r].Participants = rest]

\* The registry after user id is added to room r; a room that does not
\* exist is created with id as its only member.
AddMember(rooms, r, id) ==
    IF r \in DOMAIN rooms
    THEN [rooms EXCEPT ![r].Participants = Append(@, id)]
    ELSE [k \in DOMAIN rooms \cup {r} |->
             IF k = r THEN RoomData(r, <<id>>) ELSE rooms[k]]

SetRoom(users, id, r) == [users EXCEPT ![id].Room = r]

\* JoinBegin that leaves the session in the room it was in.
JoinBegin_KeepsOld(c, r) ==
    /\ ~crashed
    /\ UNCHANGED <<pipeVars, urlVars, svcVars, loopVars>>
    /\ pc[c] = "serve"
    /\ ops < MaxOps
    /\ RoomsLockFree
    /\ RoomsLock' = c
    /\ req' = [req EXCEPT ![c] = r]
    /\ pc' = [pc EXCEPT ![c] = "joining"]
    /\ UNCHANGED <<Rooms, Users, sent>>
    /\ UNCHANGED <<NextId, UsersLock, mapWriting, Id, Data, err,
                   usersAtEntry, registered>>
    /\ UNCHANGED <<lastJoined, crashed, conn, deferred, ops>>

\* Join(session, roomId), first half: the task takes the registry lock and,
\* when the session is in a different room, removes it from that room
\* (notifying the members that remain, deleting the room if it is empty).
JoinBegin(c, r) ==
    /\ ~crashed
    /\ UNCHANGED <<pipeVars, urlVars, svcVars, loopVars>>
    /\ pc[c] = "serve"
    /\ ops < MaxOps
    /\ RoomsLockFree
    /\ RoomsLock' = c
    /\ req' = [req EXCEPT ![c] = r]
    /\ pc' = [pc EXCEPT ![c] = "joining"]
    /\ LET old == LookupUser(Id[c]).Room
       IN  IF old # "" /\ old # r
           THEN /\ Rooms' = RemoveMember(Rooms, old, Id[c])
                /\ Users' = SetRoom(Users, Id[c], "")
                /\ sent' = Deliver(
                       {Handle(m) : m \in Members(Rooms, old) \ {Id[c]}},
                       Nil,
                       SystemMessage("leave", "", old, "", {}, <<>>),
                       SystemMessage("leave", Id[c], old, "", {}, <<>>))
           ELSE UNCHANGED <<Rooms, Users, sent>>
    /\ UNCHANGED <<NextId, UsersLock, mapWriting, Id, Data, err,
                   usersAtEntry, registered>>
    /\ UNCHANGED <<lastJoined, crashed, conn, deferred, ops>>

\* JoinEnd that appends the session to the member list even when the session
\* is already in the room.
JoinEnd_AlwaysAppends(c) ==
    /\ ~crashed
    /\ UNCHANGED <<pipeVars, urlVars, svcVars, loopVars>>
    /\ pc[c] = "joining"
    /\ LET r == req[c]
           rooms2 == AddMember(Rooms, r, Id[c])
           others == Members(Rooms, r) \ {Id[c]}
       IN  /\ Rooms' = rooms2
           /\ Users' = SetRoom(Users, Id[c], r)
           /\ sent' = Deliver(
                  {Handle(m) : m \in others} \cup {Handle(Id[c])},
                  Handle(Id[c]),
                  SystemMessage("join", "", r, "", {}, rooms2[r].Participants),
                  SystemMessage("join", Id[c], r, "", {}, <<>>))
           /\ lastJoined' = [lastJoined EXCEPT ![c] = r]
    /\ RoomsLock' = Nil
    /\ req' = [req EXCEPT ![c] = ""]
    /\ ops' = ops + 1
    /\ pc' = [pc EXCEPT ![c] = "serve"]
    /\ UNCHANGED <<NextId, UsersLock, mapWriting, Id, Data, err,
                   usersAtEntry, registered>>
    /\ UNCHANGED <<crashed, conn, deferred>>

\* Join(session, roomId), second half: the session is added to roomId
\* (created if absent), its room reference is set, the members already there
\* are told of the arrival and the sender gets the confirmation with the
\* member list; the lock is released.  Joining the room the session is in
\* adds nothing and only confirms.
JoinEnd(c) ==
    /\ ~crashed
    /\ UNCHANGED <<pipeVars, urlVars, svcVars, loopVars>>
    /\ pc[c] = "joining"
    /\ LET r == req[c]
           already == LookupUser(Id[c]).Room = r
           rooms2 == IF already THEN Rooms ELSE AddMember(Rooms, r, Id[c])
           others == IF already THEN {} ELSE Members(Rooms, r)
       IN  /\ Rooms' = rooms2
           /\ Users' = SetRoom(Users, Id[c], r)
           /\ sent' = Deliver(
                  {Handle(m) : m \in others} \cup {Handle(Id[c])},
                  Handle(Id[c]),
                  SystemMessage("join", "", r, "", {}, rooms2[r].Participants),
                  SystemMessage("join", Id[c], r, "", {}, <<>>))
           /\ lastJoined' = [lastJoined EXCEPT ![c] = r]
    /\ RoomsLock' = Nil
    /\ req' = [req EXCEPT ![c] = ""]
    /\ ops' = ops + 1
    /\ pc' = [pc EXCEPT ![c] = "serve"]
    /\ UNCHANGED <<NextId, UsersLock, mapWriting, Id, Data, err,
                   usersAtEntry, registered>>
    /\ UNCHANGED <<crashed, conn, deferred>>

\* Leave(session) of a session that is in a room, under the registry lock.
LeaveRoom(c) ==
    /\ ~crashed
    /\ UNCHANGED <<pipeVars, urlVars, svcVars, loopVars>>
    /\ pc[c] = "serve"
    /\ ops < MaxOps
    /\ RoomsLockFree
    /\ LookupUser(Id[c]).Room # ""
    /\ LET old == LookupUser(Id[c]).Room
       IN  /\ Rooms' = RemoveMember(Rooms, old, Id[c])
           /\ Users' = SetRoom(Users, Id[c], "")
           /\ sent' = Deliver(
                  {Handle(m) : m \in Members(Rooms, old)},
                  Handle(Id[c]),
                  SystemMessage("leave", "", old, "", {}, <<>>),
                  SystemMessage("leave", Id[c], old, "", {}, <<>>))
    /\ lastJoined' = [lastJoined EXCEPT ![c] = ""]
    /\ ops' = ops + 1
    /\ UNCHANGED <<NextId, UsersLock, mapWriting, Id, Data, err,
                   usersAtEntry, registered>>
    /\ UNCHANGED <<RoomsLock, req, crashed, pc, conn, deferred>>

\* LeaveNoRoom that writes the error to every registered session.
LeaveNoRoom_Broadcasts(c) ==
    /\ ~crashed
    /\ UNCHANGED <<pipeVars, urlVars, svcVars, loopVars>>
    /\ pc[c] = "serve"
    /\ ops < MaxOps
    /\ RoomsLockFree
    /\ LookupUser(Id[c]).Room = ""
    /\ LET reply == SystemMessage("error", "", "", "user was not in a room",
                                  {}, <<>>)
       IN  sent' = Deliver({Handle(m) : m \in DOMAIN Users}, Handle(Id[c]),
                           reply, reply)
    /\ ops' = ops + 1
    /\ UNCHANGED <<connVars, roomVars, crashed, pc, conn, deferred>>

\* Leave(session) of a session that is in no room: an error to the sender.
LeaveNoRoom(c) ==
    /\ ~crashed
    /\ UNCHANGED <<pipeVars, urlVars, svcVars, loopVars>>
    /\ pc[c] = "serve"
    /\ ops < MaxOps
    /\ RoomsLockFree
    /\ LookupUser(Id[c]).Room = ""
    /\ LET reply == SystemMessage("error", "", "", "user was not in a room",
                                  {}, <<>>)
       IN  sent' = Deliver({Handle(Id[c])}, Handle(Id[c]), reply, reply)
    /\ ops' = ops + 1
    /\ UNCHANGED <<connVars, roomVars, crashed, pc, conn, deferred>>

\* ListRooms(): the identifiers of the rooms that exist, read under the
\* registry lock.
ListRooms(c) ==
    /\ ~crashed
    /\ UNCHANGED <<pipeVars, urlVars, svcVars, loopVars>>
    /\ pc[c] = "serve"
    /\ ops < MaxOps
    /\ RoomsLockFree
    /\ LET reply == SystemMessage("rooms", "", "", "", DOMAIN Rooms, <<>>)
       IN  sent' = Deliver({Handle(Id[c])}, Handle(Id[c]), reply, reply)
    /\ ops' = ops + 1
    /\ UNCHANGED <<connVars, roomVars, crashed, pc, conn, deferred>>

\* ListParticipants(roomId): the members of roomId, read under the registry
\* lock; an error when no such room exists.
ListParticipants(c, r) ==
    /\ ~crashed
    /\ UNCHANGED <<pipeVars, urlVars, svcVars, loopVars>>
    /\ pc[c] = "serve"
    /\ ops < MaxOps
    /\ RoomsLockFree
    /\ LET reply == IF r \in DOMAIN Rooms
                    THEN SystemMessage("participants", "", r, "", {},
                                       Rooms[r].Participants)
                    ELSE SystemMessage("error", "", "",
                                       "room " \o r \o " does not exist",
                                       {}, <<>>)
       IN  sent' = Deliver({Handle(Id[c])}, Handle(Id[c]), reply, reply)
    /\ ops' = ops + 1
    /\ UNCHANGED <<connVars, roomVars, crashed, pc, conn, deferred>>

(***************************************************************************)
(* Messaging and the handling of frames that are no request, modelled from *)
(* spec.md sections 4.3 and 7 and from DESIGN.md (Private Message,         *)
(* Messaging a Room).                                                      *)
(***************************************************************************)
Bodies == {"hi"}

\* Ids a private message is addressed to: the ids the server can issue and
\* one it never issues.
TargetIds == {Itoa(n) : n \in 0..(MaxConns - 1)} \cup {"9"}

\* Inbound frames that are no request: not a JSON object, or a JSON object
\* whose action is none of ACTIONS.
BadFrames == {RawFrame(FALSE, ""), RawFrame(TRUE, "shout"), RawFrame(TRUE, "")}

\* s after frame has been written to connection h; a connection that is not
\* open takes no frame.
Push(s, h, frame) ==
    IF h \in Conns /\ conn[h] = "open"
    THEN [s EXCEPT ![h] = Append(@, frame)]
    ELSE s

\* DirectMessage that also delivers the body to the members of the sender's
\* room.
DirectMessage_ToRoomToo(c, t, body) ==
    /\ ~crashed
    /\ UNCHANGED <<pipeVars, urlVars, svcVars, loopVars>>
    /\ pc[c] = "serve"
    /\ ops < MaxOps
    /\ UsersLockFree
    /\ sent' = IF t \in DOMAIN Users
               THEN Deliver({Handle(t), Handle(Id[c])}
                                \cup {Handle(m) : m \in Members(Rooms, LookupUser(Id[c]).Room)},
                            Handle(Id[c]),
                            SystemMessage("private_message", t, "", body, {}, <<>>),
                            SystemMessage("private_message", Id[c], "", body, {}, <<>>))
               ELSE Push(sent, Handle(Id[c]),
                         ErrorFrame("user " \o t \o " is not on the server"))
    /\ ops' = ops + 1
    /\ UNCHANGED <<connVars, roomVars, crashed, pc, conn, deferred>>

\* DirectMessage(session, targetId, body): the Session Table is read under
\* UsersLock.  A target that is in the table gets the body tagged with the
\* sender's id and the sender gets the confirmation; for a target that is
\* not in the table the sender gets an error.
DirectMessage(c, t, body) ==
    /\ ~crashed
    /\ UNCHANGED <<pipeVars, urlVars, svcVars, loopVars>>
    /\ pc[c] = "serve"
    /\ ops < MaxOps
    /\ UsersLockFree
    /\ sent' = IF t \in DOMAIN Users
               THEN Push(Push(sent, Handle(t),
                              SystemMessage("private_message", Id[c], "", body,
                                            {}, <<>>)),
                         Handle(Id[c]),
                         SystemMessage("private_message", t, "", body, {}, <<>>))
               ELSE Push(sent, Handle(Id[c]),
                         ErrorFrame("user " \o t \o " is not on the server"))
    /\ ops' = ops + 1
    /\ UNCHANGED <<connVars, roomVars, crashed, pc, conn, deferred>>

\* RoomMessage that writes the body to every registered session.
RoomMessage_ToEveryone(c, body) ==
    /\ ~crashed
    /\ UNCHANGED <<pipeVars, urlVars, svcVars, loopVars>>
    /\ pc[c] = "serve"
    /\ ops < MaxOps
    /\ RoomsLockFree
    /\ LET r == LookupUser(Id[c]).Room
       IN  sent' = IF r = ""
                   THEN Push(sent, Handle(Id[c]),
                             ErrorFrame("user is not in a room"))
                   ELSE Deliver(
                            {Handle(m) : m \in DOMAIN Users},
                            Handle(Id[c]),
                            SystemMessage("room_message", "", r, body, {}, <<>>),
                            SystemMessage("room_message", Id[c], r, body, {}, <<>>))
    /\ ops' = ops + 1
    /\ UNCHANGED <<connVars, roomVars, crashed, pc, conn, deferred>>

\* RoomMessage(session, body): under the registry lock, the body tagged with
\* the sender's id and the room is written to every other member of the
\* sender's room and the sender gets the confirmation; a sender in no room
\* gets an error.
RoomMessage(c, body) ==
    /\ ~crashed
    /\ UNCHANGED <<pipeVars, urlVars, svcVars, loopVars>>
    /\ pc[c] = "serve"
    /\ ops < MaxOps
    /\ RoomsLockFree
    /\ LET r == LookupUser(Id[c]).Room
       IN  sent' = IF r = ""
                   THEN Push(sent, Handle(Id[c]),
                             ErrorFrame("user is not in a room"))
                   ELSE Deliver(
                            {Handle(m) : m \in Members(Rooms, r) \cup {Id[c]}},
                            Handle(Id[c]),
                            SystemMessage("room_message", "", r, body, {}, <<>>),
                            SystemMessage("room_message", Id[c], r, body, {}, <<>>))
    /\ ops' = ops + 1
    /\ UNCHANGED <<connVars, roomVars, crashed, pc, conn, deferred>>

\* Malformed that ends the session's task, closing its connection.
Malformed_Disconnects(c, raw) ==
    /\ ~crashed
    /\ UNCHANGED <<pipeVars, urlVars, svcVars, loopVars>>
    /\ pc[c] = "serve"
    /\ ops < MaxOps
    /\ ReadJSON(raw).err \/ ReadJSON(raw).Msg.action \notin Actions
    /\ sent' = Push(sent, Handle(Id[c]), ErrorFrame("malformed action"))
    /\ conn' = [conn EXCEPT ![c] = "closed"]
    /\ pc' = [pc EXCEPT ![c] = "done"]
    /\ ops' = ops + 1
    /\ UNCHANGED <<connVars, roomVars, crashed, deferred>>

\* An inbound frame that ReadJSON cannot decode, or whose action is none of
\* ACTIONS: the frame is dropped and the session is told so.
Malformed(c, raw) ==
    /\ ~crashed
    /\ UNCHANGED <<pipeVars, urlVars, svcVars, loopVars>>
    /\ pc[c] = "serve"
    /\ ops < MaxOps
    /\ ReadJSON(raw).err \/ ReadJSON(raw).Msg.action \notin Actions
    /\ sent' = Push(sent, Handle(Id[c]), ErrorFrame("malformed action"))
    /\ ops' = ops + 1
    /\ UNCHANGED <<connVars, roomVars, crashed, pc, conn, deferred>>

\* The steps of the source at hand: AcceptConnection and ManageConnection.
NextConn ==
    \/ \E c \in Conns : AcceptLock(c)
    \/ \E c \in Conns : AcceptItoa(c)
    \/ \E c \in Conns : AcceptInc(c)
    \/ \E c \in Conns : AcceptUpgradeOk(c)
    \/ \E c \in Conns : AcceptUpgradeFail(c)
    \/ \E c \in Conns : AcceptReturnErr(c)
    \/ \E c \in Conns : AcceptStoreBegin(c)
    \/ \E c \in Conns : AcceptStoreEnd(c)
    \/ \E c \in Conns : AcceptReturnOk(c)
    \/ \E c \in Conns : ManageDefer(c)
    \/ \E c \in Conns : ManageDeferRace(c)
    \/ \E c \in Conns : ManageReturn(c)

\* The steps of a session's request handlers.
NextRooms ==
    \/ \E c \in Conns, r \in RoomIds : JoinBegin(c, r)
    \/ \E c \in Conns : JoinEnd(c)
    \/ \E c \in Conns : LeaveRoom(c)
    \/ \E c \in Conns : LeaveNoRoom(c)
    \/ \E c \in Conns : ListRooms(c)
    \/ \E c \in Conns, r \in RoomIds : ListParticipants(c, r)

\* The steps of a session's message handlers.
NextMsg ==
    \/ \E c \in Conns, t \in TargetIds, b \in Bodies : DirectMessage(c, t, b)
    \/ \E c \in Conns, b \in Bodies : RoomMessage(c, b)
    \/ \E c \in Conns, raw \in BadFrames : Malformed(c, raw)

Next == NextConn \/ NextRooms \/ NextMsg

\* The relay: connections and the requests of the connected sessions.
Spec == Init /\ [][Next]_vars

\* The connection lifecycle alone, as the source at hand runs it.
SpecConn == Init /\ [][NextConn]_vars

\* The steps of the task of connection c once AcceptConnection has returned
\* to ManageConnection without an error.
ManageSteps(c) == ManageDefer(c) \/ ManageDeferRace(c) \/ ManageReturn(c)

\* SpecConn with the scheduling of Go: a task that can take a step of
\* ManageConnection is not left waiting forever.
SpecConnFair == SpecConn /\ \A c \in Conns : WF_vars(ManageSteps(c))

(***************************************************************************)
(* The path of a frame through a session, modelled from spec.md sections 2 *)
(* and 5: the client's frames queue up on the connection, the session's    *)
(* task reads and dispatches them one at a time, a delivery is a send on   *)
(* the Channel of the receiving session (UserData.Channel, created at line *)
(* 151), and the writer of that session takes the frames from the Channel  *)
(* and writes them to its client.  A send on a Go channel returns when a   *)
(* receiver has taken the value or the value has found room in the buffer. *)
(***************************************************************************)
\* The body of the k-th frame of the client of connection c.
Body(c, k) == Itoa(c) \o "." \o Itoa(k)

\* A send on the Channel of session h can complete now: its writer is
\* waiting to receive, or the buffer has room.
SendEnabled(h) ==
    \/ wbuf[h] = <<>> /\ chanq[h] = <<>>
    \/ Len(chanq[h]) < ChannelCap

\* The client of connection c sends a private_message for target t.
ClientSend(c, t) ==
    /\ ~crashed
    /\ conn[c] = "open"
    /\ ops < MaxOps
    /\ LET f == SystemMessage("private_message", t, "",
                              Body(c, Len(arrived[c]) + 1), {}, <<>>)
       IN  /\ inbox' = [inbox EXCEPT ![c] = Append(@, f)]
           /\ arrived' = [arrived EXCEPT ![c] = Append(@, f)]
    /\ ops' = ops + 1
    /\ UNCHANGED <<connVars, roomVars, crashed, pc, conn, deferred, sent>>
    /\ UNCHANGED <<handled, pending, chanq, wbuf>>
    /\ UNCHANGED <<urlVars, svcVars, loopVars>>

\* The frames a DirectMessage of task c to target t sends, each with the
\* session whose Channel it goes to.
DirectFrames(c, t, body) ==
    IF t \in DOMAIN Users
    THEN << [to |-> Handle(t),
             frame |-> SystemMessage("private_message", Id[c], "", body,
                                     {}, <<>>)],
            [to |-> Handle(Id[c]),
             frame |-> SystemMessage("private_message", t, "", body,
                                     {}, <<>>)] >>
    ELSE << [to |-> Handle(Id[c]),
             frame |-> ErrorFrame("user " \o t \o " is not on the server")] >>

\* DispatchDirect that takes the frame that arrived last.
DispatchDirect_NewestFirst(c) ==
    /\ ~crashed
    /\ pc[c] = "serve"
    /\ inbox[c] # <<>>
    /\ UsersLockFree
    /\ LET n == Len(inbox[c])
           f == inbox[c][n]
       IN  /\ pending' = [pending EXCEPT ![c] =
                             DirectFrames(c, f.user_id, f.message)]
           /\ handled' = [handled EXCEPT ![c] = Append(@, f)]
           /\ inbox' = [inbox EXCEPT ![c] = SubSeq(@, 1, n - 1)]
    /\ pc' = [pc EXCEPT ![c] = "sending"]
    /\ UNCHANGED <<connVars, roomVars, crashed, conn, deferred, sent, ops>>
    /\ UNCHANGED <<arrived, chanq, wbuf>>
    /\ UNCHANGED <<urlVars, svcVars, loopVars>>

\* The task of session c reads the next frame of its connection and
\* dispatches it: the Session Table is read under UsersLock and the frames
\* to send are determined.
DispatchDirect(c) ==
    /\ ~crashed
    /\ pc[c] = "serve"
    /\ inbox[c] # <<>>
    /\ UsersLockFree
    /\ LET f == Head(inbox[c])
       IN  /\ pending' = [pending EXCEPT ![c] =
                             DirectFrames(c, f.user_id, f.message)]
           /\ handled' = [handled EXCEPT ![c] = Append(@, f)]
           /\ inbox' = [inbox EXCEPT ![c] = Tail(@)]
    /\ pc' = [pc EXCEPT ![c] = "sending"]
    /\ UNCHANGED <<connVars, roomVars, crashed, conn, deferred, sent, ops>>
    /\ UNCHANGED <<arrived, chanq, wbuf>>
    /\ UNCHANGED <<urlVars, svcVars, loopVars>>

\* The task of session c sends the next of its frames on the Channel of the
\* receiving session: the writer takes it at once if it is waiting,
\* otherwise the frame goes to the buffer; with neither, the send waits.
\* After its last frame the task goes back to reading.
ChannelSend(c) ==
    /\ ~crashed
    /\ pc[c] = "sending"
    /\ LET h == Head(pending[c]).to
           f == Head(pending[c]).frame
       IN  /\ SendEnabled(h)
           /\ IF wbuf[h] = <<>> /\ chanq[h] = <<>>
              THEN /\ wbuf' = [wbuf EXCEPT ![h] = <<f>>]
                   /\ UNCHANGED chanq
              ELSE /\ chanq' = [chanq EXCEPT ![h] = Append(@, f)]
                   /\ UNCHANGED wbuf
    /\ pending' = [pending EXCEPT ![c] = Tail(@)]
    /\ pc' = [pc EXCEPT ![c] = IF Len(pending[c]) = 1 THEN "serve"
                               ELSE "sending"]
    /\ UNCHANGED <<connVars, roomVars, crashed, conn, deferred, sent, ops>>
    /\ UNCHANGED <<inbox, arrived, handled>>
    /\ UNCHANGED <<urlVars, svcVars, loopVars>>

\* The writer of session h completes the write of the frame it holds (its
\* client has read it; a closed connection takes no frame) and receives the
\* next frame of the Channel, if there is one.
WriterWrite(h) ==
    /\ ~crashed
    /\ wbuf[h] # <<>>
    /\ sent' = Push(sent, h, wbuf[h][1])
    /\ IF chanq[h] # <<>>
       THEN /\ wbuf' = [wbuf EXCEPT ![h] = <<Head(chanq[h])>>]
            /\ chanq' = [chanq EXCEPT ![h] = Tail(@)]
       ELSE /\ wbuf' = [wbuf EXCEPT ![h] = <<>>]
            /\ UNCHANGED chanq
    /\ UNCHANGED <<connVars, roomVars, crashed, pc, conn, deferred, ops>>
    /\ UNCHANGED <<inbox, arrived, handled, pending>>
    /\ UNCHANGED <<urlVars, svcVars, loopVars>>

\* The steps of a frame on its way through the server.
NextPipe ==
    \/ \E c \in Conns, t \in TargetIds : ClientSend(c, t)
    \/ \E c \in Conns : DispatchDirect(c)
    \/ \E c \in Conns : ChannelSend(c)
    \/ \E h \in Conns : WriterWrite(h)

\* The relay with the inbound and the outbound path of every session.
SpecPipe == Init /\ [][NextConn \/ NextPipe]_vars

(***************************************************************************)
(* URL shortener: the shorten endpoint (url_shortener/server.go).  The      *)
(* table aliases has URL UNIQUE NOT NULL and Alias PRIMARY KEY; an INSERT  *)
(* that breaks one of the two constraints fails with the error naming it.  *)
(* When it breaks both, SQLite reports the constraint on Alias: it checks  *)
(* the unique indexes of a table from the one declared last, and Alias is  *)
(* declared after URL (QUERY_CREATE_TABLE); SQLite 3.40.1 answers an       *)
(* INSERT into this table that repeats both columns with                   *)
(* "UNIQUE constraint failed: aliases.Alias".                              *)
(***************************************************************************)
Urls == {"u1", "u2", "u3"}
CustomAliases == {"1"}

UrlTaken(url) == \E a \in DOMAIN aliases : aliases[a].URL = url

AliasTaken(alias) == alias \in DOMAIN aliases

\* QUERY_MAKE_MAPPING_TEMPLATE: the table after the row has been inserted,
\* with 0 expansions.
Insert(table, url, alias, automatic) ==
    [k \in DOMAIN table \cup {alias} |->
        IF k = alias THEN Row(url, 0, automatic) ELSE table[k]]

\* GetAliasByURL (lines 253-258): the alias of the row whose URL is url.
GetAliasByURL(url) == CHOOSE a \in DOMAIN aliases : aliases[a].URL = url

\* Database statements that have failed for an unexpected reason.
Faults == Cardinality({t \in Reqs : rret[t].err = OtherDbError})

nextAliasLockFree == nextAliasLock = Nil

\* Shorten, lines 447-471: a POST whose body decodes into a ShortenRequest;
\* an empty alias selects ShortenAutomatic.
ShortenDecode(t, url, alias) ==
    /\ rpc[t] = "idle"
    /\ rreq' = [rreq EXCEPT ![t] = ShortenRequest(url, alias)]
    /\ rpc' = [rpc EXCEPT ![t] = IF alias = "" THEN "auto_lock"
                                 ELSE "custom_insert"]
    /\ UNCHANGED <<aliases, nextAlias, nextAliasLock, ralias, rret, rresp,
                   finished>>
    /\ UNCHANGED <<chatVars, pipeVars, svcVars, loopVars>>

\* AutoLock without the mutual exclusion of nextAliasLock.
AutoLock_NoMutex(t) ==
    /\ rpc[t] = "auto_lock"
    /\ nextAliasLock' = t
    /\ rpc' = [rpc EXCEPT ![t] = "auto_insert"]
    /\ UNCHANGED <<aliases, nextAlias, rreq, ralias, rret, rresp, finished>>
    /\ rrows' = [rrows EXCEPT ![t] = Cardinality(DOMAIN aliases)]
    /\ UNCHANGED <<chatVars, pipeVars, svcVars, riter, rinserted>>

\* ShortenAutomatic, line 313: s.nextAliasLock.Lock()
AutoLock(t) ==
    /\ rpc[t] = "auto_lock"
    /\ nextAliasLockFree
    /\ nextAliasLock' = t
    /\ rpc' = [rpc EXCEPT ![t] = "auto_insert"]
    /\ UNCHANGED <<aliases, nextAlias, rreq, ralias, rret, rresp, finished>>
    /\ rrows' = [rrows EXCEPT ![t] = Cardinality(DOMAIN aliases)]
    /\ UNCHANGED <<chatVars, pipeVars, svcVars, riter, rinserted>>

\* lines 321-324: alias = strconv.Itoa(s.nextAlias) and the INSERT, which
\* succeeds.
AutoInsertOk(t) ==
    /\ rpc[t] = "auto_insert"
    /\ ~UrlTaken(rreq[t].Url)
    /\ ~AliasTaken(Itoa(nextAlias))
    /\ ralias' = [ralias EXCEPT ![t] = Itoa(nextAlias)]
    /\ aliases' = Insert(aliases, rreq[t].Url, Itoa(nextAlias), TRUE)
    /\ rpc' = [rpc EXCEPT ![t] = "auto_inc"]
    /\ UNCHANGED <<nextAlias, nextAliasLock, rreq, rret, rresp, finished>>
    /\ riter' = [riter EXCEPT ![t] = riter[t] + 1]
    /\ rinserted' = rinserted \cup {t}
    /\ UNCHANGED <<chatVars, pipeVars, svcVars, rrows>>

\* AutoInc that returns the alias without s.nextAlias += 1.
AutoInc_NoIncrement(t) ==
    /\ rpc[t] = "auto_inc"
    /\ rret' = [rret EXCEPT ![t] = Returned(ralias[t], "", "")]
    /\ rpc' = [rpc EXCEPT ![t] = "auto_unlock"]
    /\ UNCHANGED <<aliases, nextAlias, nextAliasLock, rreq, ralias, rresp,
                   finished>>
    /\ UNCHANGED <<chatVars, pipeVars, svcVars, loopVars>>

\* lines 325-326 and 373: s.nextAlias += 1; break; return alias, "", nil
AutoInc(t) ==
    /\ rpc[t] = "auto_inc"
    /\ nextAlias' = nextAlias + 1
    /\ rret' = [rret EXCEPT ![t] = Returned(ralias[t], "", "")]
    /\ rpc' = [rpc EXCEPT ![t] = "auto_unlock"]
    /\ UNCHANGED <<aliases, nextAliasLock, rreq, ralias, rresp, finished>>
    /\ UNCHANGED <<chatVars, pipeVars, svcVars, loopVars>>

\* lines 321-322 and 327: the INSERT fails with DUPLICATE_URL_VIOLATION.
AutoDupUrl(t) ==
    /\ rpc[t] = "auto_insert"
    /\ UrlTaken(rreq[t].Url)
    /\ ~AliasTaken(Itoa(nextAlias))
    /\ ralias' = [ralias EXCEPT ![t] = Itoa(nextAlias)]
    /\ rpc' = [rpc EXCEPT ![t] = "auto_lookup"]
    /\ UNCHANGED <<aliases, nextAlias, nextAliasLock, rreq, rret, rresp,
                   finished>>
    /\ riter' = [riter EXCEPT ![t] = riter[t] + 1]
    /\ UNCHANGED <<chatVars, pipeVars, svcVars, rrows, rinserted>>

\* lines 340-350: the alias the URL has is looked up and reported.
AutoLookup(t) ==
    /\ rpc[t] = "auto_lookup"
    /\ ralias' = [ralias EXCEPT ![t] = GetAliasByURL(rreq[t].Url)]
    /\ rret' = [rret EXCEPT ![t] =
                   Returned("",
                            "URL already has an alias "
                                \o GetAliasByURL(rreq[t].Url) \o ".",
                            DUPLICATE_URL_VIOLATION)]
    /\ rpc' = [rpc EXCEPT ![t] = "auto_unlock"]
    /\ UNCHANGED <<aliases, nextAlias, nextAliasLock, rreq, rresp, finished>>
    /\ UNCHANGED <<chatVars, pipeVars, svcVars, loopVars>>

\* AutoDupAlias that gives up: the request fails because its candidate is
\* taken.
AutoDupAlias_GivesUp(t) ==
    /\ rpc[t] = "auto_insert"
    /\ AliasTaken(Itoa(nextAlias))
    /\ ralias' = [ralias EXCEPT ![t] = Itoa(nextAlias)]
    /\ rret' = [rret EXCEPT ![t] =
                   Returned("", "Alias is already in use",
                            DUPLICATE_ALIAS_VIOLATION)]
    /\ rpc' = [rpc EXCEPT ![t] = "auto_unlock"]
    /\ UNCHANGED <<aliases, nextAlias, nextAliasLock, rreq, rresp, finished>>
    /\ riter' = [riter EXCEPT ![t] = riter[t] + 1]
    /\ UNCHANGED <<chatVars, pipeVars, svcVars, rrows, rinserted>>

\* lines 321-322 and 351-367: the INSERT fails with
\* DUPLICATE_ALIAS_VIOLATION; s.nextAlias += 1 and the loop goes round.
AutoDupAlias(t) ==
    /\ rpc[t] = "auto_insert"
    /\ AliasTaken(Itoa(nextAlias))
    /\ ralias' = [ralias EXCEPT ![t] = Itoa(nextAlias)]
    /\ nextAlias' = nextAlias + 1
    /\ UNCHANGED <<aliases, nextAliasLock, rpc, rreq, rret, rresp, finished>>
    /\ riter' = [riter EXCEPT ![t] = riter[t] + 1]
    /\ UNCHANGED <<chatVars, pipeVars, svcVars, rrows, rinserted>>

\* AutoError that returns without the deferred Unlock: the lock stays held.
AutoError_KeepsLock(t) ==
    /\ rpc[t] = "auto_insert"
    /\ Faults < MaxFaults
    /\ ralias' = [ralias EXCEPT ![t] = Itoa(nextAlias)]
    /\ rret' = [rret EXCEPT ![t] =
                   Returned("", INTERNAL_ERROR_MESSAGE, OtherDbError)]
    /\ rpc' = [rpc EXCEPT ![t] = "auto_return"]
    /\ UNCHANGED <<aliases, nextAlias, nextAliasLock, rreq, rresp, finished>>
    /\ riter' = [riter EXCEPT ![t] = riter[t] + 1]
    /\ UNCHANGED <<chatVars, pipeVars, svcVars, rrows, rinserted>>

\* lines 321-322 and 368-371: the INSERT fails for another reason.
AutoError(t) ==
    /\ rpc[t] = "auto_insert"
    /\ Faults < MaxFaults
    /\ ralias' = [ralias EXCEPT ![t] = Itoa(nextAlias)]
    /\ rret' = [rret EXCEPT ![t] =
                   Returned("", INTERNAL_ERROR_MESSAGE, OtherDbError)]
    /\ rpc' = [rpc EXCEPT ![t] = "auto_unlock"]
    /\ UNCHANGED <<aliases, nextAlias, nextAliasLock, rreq, rresp, finished>>
    /\ riter' = [riter EXCEPT ![t] = riter[t] + 1]
    /\ UNCHANGED <<chatVars, pipeVars, svcVars, rrows, rinserted>>

\* line 314, defer s.nextAliasLock.Unlock(): runs when the function returns,
\* before the deferred call of line 283.
AutoUnlock(t) ==
    /\ rpc[t] = "auto_unlock"
    /\ nextAliasLock' = IF nextAliasLock = t THEN Nil ELSE nextAliasLock
    /\ rpc' = [rpc EXCEPT ![t] = "auto_return"]
    /\ UNCHANGED <<aliases, nextAlias, rreq, ralias, rret, rresp, finished>>
    /\ UNCHANGED <<chatVars, pipeVars, svcVars, loopVars>>

\* line 283 (the deferred "Finished servicing" log) and the return to
\* Shorten (line 467): ShortenAutomatic has finished.
AutoReturn(t) ==
    /\ rpc[t] = "auto_return"
    /\ finished' = Append(finished, t)
    /\ rpc' = [rpc EXCEPT ![t] = "respond"]
    /\ UNCHANGED <<aliases, nextAlias, nextAliasLock, rreq, ralias, rret,
                   rresp>>
    /\ UNCHANGED <<chatVars, pipeVars, svcVars, loopVars>>

\* ShortenCustom, lines 397-401: the INSERT succeeds.
CustomInsertOk(t) ==
    /\ rpc[t] = "custom_insert"
    /\ ~UrlTaken(rreq[t].Url)
    /\ ~AliasTaken(rreq[t].Alias)
    /\ aliases' = Insert(aliases, rreq[t].Url, rreq[t].Alias, FALSE)
    /\ rret' = [rret EXCEPT ![t] = Returned(rreq[t].Alias, "", "")]
    /\ rpc' = [rpc EXCEPT ![t] = "respond"]
    /\ UNCHANGED <<nextAlias, nextAliasLock, rreq, ralias, rresp, finished>>
    /\ rinserted' = rinserted \cup {t}
    /\ UNCHANGED <<chatVars, pipeVars, svcVars, riter, rrows>>

\* CustomDupUrl without the UNIQUE constraint on URL: the row is inserted.
CustomDupUrl_Inserts(t) ==
    /\ rpc[t] = "custom_insert"
    /\ UrlTaken(rreq[t].Url)
    /\ ~AliasTaken(rreq[t].Alias)
    /\ aliases' = Insert(aliases, rreq[t].Url, rreq[t].Alias, FALSE)
    /\ rret' = [rret EXCEPT ![t] = Returned(rreq[t].Alias, "", "")]
    /\ rpc' = [rpc EXCEPT ![t] = "respond"]
    /\ UNCHANGED <<nextAlias, nextAliasLock, rreq, ralias, rresp, finished>>
    /\ rinserted' = rinserted \cup {t}
    /\ UNCHANGED <<chatVars, pipeVars, svcVars, riter, rrows>>

\* lines 397 and 402: the INSERT fails with DUPLICATE_URL_VIOLATION.
CustomDupUrl(t) ==
    /\ rpc[t] = "custom_insert"
    /\ UrlTaken(rreq[t].Url)
    /\ ~AliasTaken(rreq[t].Alias)
    /\ rpc' = [rpc EXCEPT ![t] = "custom_lookup"]
    /\ UNCHANGED <<aliases, nextAlias, nextAliasLock, rreq, ralias, rret,
                   rresp, finished>>
    /\ UNCHANGED <<chatVars, pipeVars, svcVars, loopVars>>

\* lines 414-426: the alias the URL has is looked up and reported.
CustomLookup(t) ==
    /\ rpc[t] = "custom_lookup"
    /\ ralias' = [ralias EXCEPT ![t] = GetAliasByURL(rreq[t].Url)]
    /\ rret' = [rret EXCEPT ![t] =
                   Returned("",
                            "URL already has an alias "
                                \o GetAliasByURL(rreq[t].Url) \o ".",
                            DUPLICATE_URL_VIOLATION)]
    /\ rpc' = [rpc EXCEPT ![t] = "respond"]
    /\ UNCHANGED <<aliases, nextAlias, nextAliasLock, rreq, rresp, finished>>
    /\ UNCHANGED <<chatVars, pipeVars, svcVars, loopVars>>

\* CustomDupAlias with INSERT OR REPLACE: the row of the alias is replaced.
CustomDupAlias_Replaces(t) ==
    /\ rpc[t] = "custom_insert"
    /\ AliasTaken(rreq[t].Alias)
    /\ aliases' = Insert(aliases, rreq[t].Url, rreq[t].Alias, FALSE)
    /\ rret' = [rret EXCEPT ![t] = Returned(rreq[t].Alias, "", "")]
    /\ rpc' = [rpc EXCEPT ![t] = "respond"]
    /\ UNCHANGED <<nextAlias, nextAliasLock, rreq, ralias, rresp, finished>>
    /\ rinserted' = rinserted \cup {t}
    /\ UNCHANGED <<chatVars, pipeVars, svcVars, riter, rrows>>

\* lines 397 and 427-429: the INSERT fails with DUPLICATE_ALIAS_VIOLATION.
CustomDupAlias(t) ==
    /\ rpc[t] = "custom_insert"
    /\ AliasTaken(rreq[t].Alias)
    /\ rret' = [rret EXCEPT ![t] =
                   Returned("", "Alias is already in use",
                            DUPLICATE_ALIAS_VIOLATION)]
    /\ rpc' = [rpc EXCEPT ![t] = "respond"]
    /\ UNCHANGED <<aliases, nextAlias, nextAliasLock, rreq, ralias, rresp,
                   finished>>
    /\ UNCHANGED <<chatVars, pipeVars, svcVars, loopVars>>

\* lines 397 and 430-433: the INSERT fails for another reason.
CustomError(t) ==
    /\ rpc[t] = "custom_insert"
    /\ Faults < MaxFaults
    /\ rret' = [rret EXCEPT ![t] =
                   Returned("", INTERNAL_ERROR_MESSAGE, OtherDbError)]
    /\ rpc' = [rpc EXCEPT ![t] = "respond"]
    /\ UNCHANGED <<aliases, nextAlias, nextAliasLock, rreq, ralias, rresp,
                   finished>>
    /\ UNCHANGED <<chatVars, pipeVars, svcVars, loopVars>>

\* Shorten, lines 479-492: the response, 500 for an internal error, 400 with
\* the message for a request error, else the mapping as JSON.
ShortenRespond(t) ==
    /\ rpc[t] = "respond"
    /\ rresp' = [rresp EXCEPT ![t] =
                    IF rret[t].err # ""
                    THEN IF rret[t].err_msg = INTERNAL_ERROR_MESSAGE
                         THEN Response(500, "", "", INTERNAL_ERROR_MESSAGE)
                         ELSE Response(400, "", "", rret[t].err_msg)
                    ELSE Response(200, rreq[t].Url, rret[t].alias, "")]
    /\ rpc' = [rpc EXCEPT ![t] = "done"]
    /\ UNCHANGED <<aliases, nextAlias, nextAliasLock, rreq, ralias, rret,
                   finished>>
    /\ UNCHANGED <<chatVars, pipeVars, svcVars, loopVars>>

\* The steps of the shorten requests.
NextUrl ==
    \/ \E t \in Reqs, u \in Urls, a \in CustomAliases \cup {""} :
           ShortenDecode(t, u, a)
    \/ \E t \in Reqs : AutoLock(t)
    \/ \E t \in Reqs : AutoInsertOk(t)
    \/ \E t \in Reqs : AutoInc(t)
    \/ \E t \in Reqs : AutoDupUrl(t)
    \/ \E t \in Reqs : AutoLookup(t)
    \/ \E t \in Reqs : AutoDupAlias(t)
    \/ \E t \in Reqs : AutoError(t)
    \/ \E t \in Reqs : AutoUnlock(t)
    \/ \E t \in Reqs : AutoReturn(t)
    \/ \E t \in Reqs : CustomInsertOk(t)
    \/ \E t \in Reqs : CustomDupUrl(t)
    \/ \E t \in Reqs : CustomLookup(t)
    \/ \E t \in Reqs : CustomDupAlias(t)
    \/ \E t \in Reqs : CustomError(t)
    \/ \E t \in Reqs : ShortenRespond(t)

\* The URL shortener serving shorten requests on a fresh database.
SpecUrl == Init /\ [][NextUrl]_vars

(***************************************************************************)
(* The remaining endpoints of the URL shortener and its reboot             *)
(* (src/URL-Shortener/src/url_shortener/server.go).  Expand is three       *)
(* steps, the SELECT of the URL, the UPDATE of Expansions and the          *)
(* response; no lock is held between them (lines 539-574).  Analytics is   *)
(* one SELECT followed by its response.  The database is a file            *)
(* (DATABASE_FILE): it outlives the process, everything else does not.     *)
(***************************************************************************)
Methods == {"GET", "POST"}
SvcUrls == {"u1", "u2"}
SvcAliases == {"0", "x"}
GetAliases == {"0"}

\* The shorten requests that are made while the other endpoints are in use.
MaxSvcReqs == 2
MaxSvcTotal == 4
SvcReqs == 1..MaxSvcReqs

\* The numbers an alias can stand for.
AliasNumbers == 0..(2 * MaxReqs)

\* AnalyticsResponse (api.go) as the response to a successful request.
AnalyticsResponse(url, alias, expansions) ==
    [status |-> 200, Url |-> url, Alias |-> alias, Expansions |-> expansions,
     message |-> ""]

\* ReportInvalidMethodError, lines 201-204.
InvalidMethodResponse == Response(405, "", "", "Invalid request method")

\* ReportUnexpectedInternalServerError, lines 182-190.
InternalErrorResponse == Response(500, "", "", INTERNAL_ERROR_MESSAGE)

\* Database statements that have failed for an unexpected reason, those of
\* the GET requests included.
GetFaults == Faults + Cardinality({g \in Gets : gresp[g].status = 500})

\* Shorten, lines 449-452: the method is not POST.
ShortenInvalidMethod(t, method) ==
    /\ rpc[t] = "idle"
    /\ method # "POST"
    /\ rresp' = [rresp EXCEPT ![t] = InvalidMethodResponse]
    /\ rpc' = [rpc EXCEPT ![t] = "done"]
    /\ UNCHANGED <<aliases, nextAlias, nextAliasLock, rreq, ralias, rret,
                   finished>>
    /\ UNCHANGED <<chatVars, pipeVars, svcVars, loopVars>>

\* ExpandInvalidMethod with the UPDATE of Expansions executed all the same.
ExpandInvalidMethod_Updates(g, method) ==
    /\ gpc[g] = "idle"
    /\ method # "GET"
    /\ greq' = [greq EXCEPT ![g] = GetRequest("expand", method, "")]
    /\ gresp' = [gresp EXCEPT ![g] = InvalidMethodResponse]
    /\ gpc' = [gpc EXCEPT ![g] = "done"]
    /\ aliases' = [a \in DOMAIN aliases |->
                      IF a \in GetAliases
                      THEN [aliases[a] EXCEPT !.Expansions = @ + 1]
                      ELSE aliases[a]]
    /\ UNCHANGED <<gurl, gupdated, boots>>
    /\ UNCHANGED <<nextAlias, nextAliasLock, rpc, rreq, ralias, rret, rresp,
                   finished>>
    /\ UNCHANGED <<chatVars, pipeVars, loopVars>>

\* Expand, lines 508-511: the method is not GET.
ExpandInvalidMethod(g, method) ==
    /\ gpc[g] = "idle"
    /\ method # "GET"
    /\ greq' = [greq EXCEPT ![g] = GetRequest("expand", method, "")]
    /\ gresp' = [gresp EXCEPT ![g] = InvalidMethodResponse]
    /\ gpc' = [gpc EXCEPT ![g] = "done"]
    /\ UNCHANGED <<gurl, gupdated, boots>>
    /\ UNCHANGED <<chatVars, pipeVars, urlVars, loopVars>>

\* ExpandSelectOk that returns the URL of some row, not of the row of alias.
ExpandSelectOk_AnyRow(g, alias) ==
    /\ gpc[g] = "idle"
    /\ alias \in DOMAIN aliases
    /\ greq' = [greq EXCEPT ![g] = GetRequest("expand", "GET", alias)]
    /\ \E a \in DOMAIN aliases : gurl' = [gurl EXCEPT ![g] = aliases[a].URL]
    /\ gpc' = [gpc EXCEPT ![g] = "expand_update"]
    /\ UNCHANGED <<gresp, gupdated, boots>>
    /\ UNCHANGED <<chatVars, pipeVars, urlVars, loopVars>>

\* Expand, lines 508-523: a GET; QUERY_GET_URL_BY_ALIAS_TEMPLATE finds the
\* row of alias and Scan stores its URL in url.
ExpandSelectOk(g, alias) ==
    /\ gpc[g] = "idle"
    /\ alias \in DOMAIN aliases
    /\ greq' = [greq EXCEPT ![g] = GetRequest("expand", "GET", alias)]
    /\ gurl' = [gurl EXCEPT ![g] = aliases[alias].URL]
    /\ gpc' = [gpc EXCEPT ![g] = "expand_update"]
    /\ UNCHANGED <<gresp, gupdated, boots>>
    /\ UNCHANGED <<chatVars, pipeVars, urlVars, loopVars>>

\* ExpandSelectNoRows that maps the alias it did not find.
ExpandSelectNoRows_CreatesRow(g, alias) ==
    /\ gpc[g] = "idle"
    /\ alias \notin DOMAIN aliases
    /\ greq' = [greq EXCEPT ![g] = GetRequest("expand", "GET", alias)]
    /\ gresp' = [gresp EXCEPT ![g] =
                    Response(400, "", "",
                             "Cannot expand " \o alias \o ", not mapped")]
    /\ gpc' = [gpc EXCEPT ![g] = "done"]
    /\ aliases' = Insert(aliases, "", alias, FALSE)
    /\ UNCHANGED <<gurl, gupdated, boots>>
    /\ UNCHANGED <<nextAlias, nextAliasLock, rpc, rreq, ralias, rret, rresp,
                   finished>>
    /\ UNCHANGED <<chatVars, pipeVars, loopVars>>

\* Expand, lines 508-534: a GET; the SELECT finds no row (sql.ErrNoRows).
ExpandSelectNoRows(g, alias) ==
    /\ gpc[g] = "idle"
    /\ alias \notin DOMAIN aliases
    /\ greq' = [greq EXCEPT ![g] = GetRequest("expand", "GET", alias)]
    /\ gresp' = [gresp EXCEPT ![g] =
                    Response(400, "", "",
                             "Cannot expand " \o alias \o ", not mapped")]
    /\ gpc' = [gpc EXCEPT ![g] = "done"]
    /\ UNCHANGED <<gurl, gupdated, boots>>
    /\ UNCHANGED <<chatVars, pipeVars, urlVars, loopVars>>

\* Expand, lines 508-523 and 534-537: a GET; the SELECT fails for another
\* reason.
ExpandSelectError(g, alias) ==
    /\ gpc[g] = "idle"
    /\ GetFaults < MaxFaults
    /\ greq' = [greq EXCEPT ![g] = GetRequest("expand", "GET", alias)]
    /\ gresp' = [gresp EXCEPT ![g] = InternalErrorResponse]
    /\ gpc' = [gpc EXCEPT ![g] = "done"]
    /\ UNCHANGED <<gurl, gupdated, boots>>
    /\ UNCHANGED <<chatVars, pipeVars, urlVars, loopVars>>

\* QUERY_UPDATE_ANALYTICS_BY_ALIAS_TEMPLATE: the table after the statement.
UpdateAnalytics(table, alias) ==
    [a \in DOMAIN table |->
        IF a = alias THEN [table[a] EXCEPT !.Expansions = @ + 1]
        ELSE table[a]]

\* ExpandUpdateOk with SET Expansions = 1 in place of Expansions + 1.
ExpandUpdateOk_Overwrites(g) ==
    /\ gpc[g] = "expand_update"
    /\ aliases' = [a \in DOMAIN aliases |->
                      IF a = greq[g].alias
                      THEN [aliases[a] EXCEPT !.Expansions = 1]
                      ELSE aliases[a]]
    /\ gupdated' = gupdated \cup {g}
    /\ gpc' = [gpc EXCEPT ![g] = "expand_respond"]
    /\ UNCHANGED <<greq, gurl, gresp, boots>>
    /\ UNCHANGED <<nextAlias, nextAliasLock, rpc, rreq, ralias, rret, rresp,
                   finished>>
    /\ UNCHANGED <<chatVars, pipeVars, loopVars>>

\* Expand, line 575: the UPDATE, one statement, succeeds.
ExpandUpdateOk(g) ==
    /\ gpc[g] = "expand_update"
    /\ aliases' = UpdateAnalytics(aliases, greq[g].alias)
    /\ gupdated' = gupdated \cup {g}
    /\ gpc' = [gpc EXCEPT ![g] = "expand_respond"]
    /\ UNCHANGED <<greq, gurl, gresp, boots>>
    /\ UNCHANGED <<nextAlias, nextAliasLock, rpc, rreq, ralias, rret, rresp,
                   finished>>
    /\ UNCHANGED <<chatVars, pipeVars, loopVars>>

\* Expand, lines 575-579: the UPDATE fails.
ExpandUpdateError(g) ==
    /\ gpc[g] = "expand_update"
    /\ GetFaults < MaxFaults
    /\ gresp' = [gresp EXCEPT ![g] = InternalErrorResponse]
    /\ gpc' = [gpc EXCEPT ![g] = "done"]
    /\ UNCHANGED <<greq, gurl, gupdated, boots>>
    /\ UNCHANGED <<chatVars, pipeVars, urlVars, loopVars>>

\* Expand, lines 581-584: the ExpandResponse is sent to the user.
ExpandRespond(g) ==
    /\ gpc[g] = "expand_respond"
    /\ gresp' = [gresp EXCEPT ![g] =
                    Response(200, gurl[g], greq[g].alias, "")]
    /\ gpc' = [gpc EXCEPT ![g] = "done"]
    /\ UNCHANGED <<greq, gurl, gupdated, boots>>
    /\ UNCHANGED <<chatVars, pipeVars, urlVars, loopVars>>

\* Analytics, lines 600-603: the method is not GET.
AnalyticsInvalidMethod(g, method) ==
    /\ gpc[g] = "idle"
    /\ method # "GET"
    /\ greq' = [greq EXCEPT ![g] = GetRequest("analytics", method, "")]
    /\ gresp' = [gresp EXCEPT ![g] = InvalidMethodResponse]
    /\ gpc' = [gpc EXCEPT ![g] = "done"]
    /\ UNCHANGED <<gurl, gupdated, boots>>
    /\ UNCHANGED <<chatVars, pipeVars, urlVars, loopVars>>

\* AnalyticsOk that counts itself as an expansion.
AnalyticsOk_Counts(g, alias) ==
    /\ gpc[g] = "idle"
    /\ alias \in DOMAIN aliases
    /\ greq' = [greq EXCEPT ![g] = GetRequest("analytics", "GET", alias)]
    /\ gresp' = [gresp EXCEPT ![g] =
                    AnalyticsResponse(aliases[alias].URL, alias,
                                      aliases[alias].Expansions)]
    /\ gpc' = [gpc EXCEPT ![g] = "done"]
    /\ aliases' = UpdateAnalytics(aliases, alias)
    /\ UNCHANGED <<gurl, gupdated, boots>>
    /\ UNCHANGED <<nextAlias, nextAliasLock, rpc, rreq, ralias, rret, rresp,
                   finished>>
    /\ UNCHANGED <<chatVars, pipeVars, loopVars>>

\* Analytics, lines 600-636: a GET; QUERY_GET_ANALYTICS_BY_ALIAS_TEMPLATE
\* finds the row of alias; its URL and Expansions are sent to the user.
AnalyticsOk(g, alias) ==
    /\ gpc[g] = "idle"
    /\ alias \in DOMAIN aliases
    /\ greq' = [greq EXCEPT ![g] = GetRequest("analytics", "GET", alias)]
    /\ gresp' = [gresp EXCEPT ![g] =
                    AnalyticsResponse(aliases[alias].URL, alias,
                                      aliases[alias].Expansions)]
    /\ gpc' = [gpc EXCEPT ![g] = "done"]
    /\ UNCHANGED <<gurl, gupdated, boots>>
    /\ UNCHANGED <<chatVars, pipeVars, urlVars, loopVars>>

\* Analytics, lines 600-627: a GET; the SELECT finds no row.
AnalyticsNoRows(g, alias) ==
    /\ gpc[g] = "idle"
    /\ alias \notin DOMAIN aliases
    /\ greq' = [greq EXCEPT ![g] = GetRequest("analytics", "GET", alias)]
    /\ gresp' = [gresp EXCEPT ![g] =
                    Response(400, "", "",
                             "Cannot get analytics for " \o alias
                                 \o ", not mapped")]
    /\ gpc' = [gpc EXCEPT ![g] = "done"]
    /\ UNCHANGED <<gurl, gupdated, boots>>
    /\ UNCHANGED <<chatVars, pipeVars, urlVars, loopVars>>

\* Analytics, lines 600-617 and 627-630: a GET; the SELECT fails for
\* another reason.
AnalyticsError(g, alias) ==
    /\ gpc[g] = "idle"
    /\ GetFaults < MaxFaults
    /\ greq' = [greq EXCEPT ![g] = GetRequest("analytics", "GET", alias)]
    /\ gresp' = [gresp EXCEPT ![g] = InternalErrorResponse]
    /\ gpc' = [gpc EXCEPT ![g] = "done"]
    /\ UNCHANGED <<gurl, gupdated, boots>>
    /\ UNCHANGED <<chatVars, pipeVars, urlVars, loopVars>>

(***************************************************************************)
(* SetNextAlias, lines 133-167.                                            *)
(***************************************************************************)
\* strconv.Atoi on the decimal string of a non-negative int.
Atoi(s) == CHOOSE n \in AliasNumbers : Itoa(n) = s

\* CAST(Alias AS INTEGER): the number a decimal string stands for, 0 for a
\* text that does not begin with a digit.
CastInteger(s) ==
    IF \E n \in AliasNumbers : Itoa(n) = s THEN Atoi(s) ELSE 0

\* sql.NullString.
NullString(valid, string) == [Valid |-> valid, String |-> string]

\* QUERY_GET_NEXT_ALIAS scanned into a NullString: MAX over the rows WHERE
\* Automatic, NULL when there is no such row.
QueryGetNextAlias(table) ==
    LET auto == {CastInteger(a) : a \in {b \in DOMAIN table : table[b].Automatic}}
    IN  IF auto = {} THEN NullString(FALSE, "")
        ELSE NullString(TRUE, Itoa(CHOOSE m \in auto : \A n \in auto : n <= m))

\* SetNextAlias with the MAX taken over every row, custom aliases included.
SetNextAlias_AllRows(table) ==
    LET all == {CastInteger(a) : a \in DOMAIN table}
    IN  IF all = {} THEN 0
        ELSE (CHOOSE m \in all : \A n \in all : n <= m) + 1

\* The value SetNextAlias gives s.nextAlias.
SetNextAlias(table) ==
    LET maybe_max_alias == QueryGetNextAlias(table)
    IN  IF ~maybe_max_alias.Valid THEN 0
        ELSE Atoi(maybe_max_alias.String) + 1

\* The process is stopped, whatever its requests are doing, and started
\* again (NewServer, lines 669-697) on the database file it left:
\* InitializeDatabase keeps the table, SetNextAlias computes nextAlias, the
\* new Server has a new unlocked nextAliasLock, and the goroutines of the
\* old process are gone.
Reboot ==
    /\ boots < MaxBoots
    /\ boots' = boots + 1
    /\ nextAlias' = SetNextAlias(aliases)
    /\ nextAliasLock' = Nil
    /\ rpc' = [t \in Reqs |->
                  IF rpc[t] \in {"idle", "done"} THEN rpc[t] ELSE "killed"]
    /\ gpc' = [g \in Gets |->
                  IF gpc[g] \in {"idle", "done"} THEN gpc[g] ELSE "killed"]
    /\ UNCHANGED <<aliases, rreq, ralias, rret, rresp, finished>>
    /\ UNCHANGED <<greq, gurl, gresp, gupdated>>
    /\ UNCHANGED <<chatVars, pipeVars, loopVars>>

\* The requests made so far.
Started ==
    Cardinality({t \in Reqs : rpc[t] # "idle"})
        + Cardinality({g \in Gets : gpc[g] # "idle"})

\* Requests are numbered in the order in which they are made, and at most
\* MaxSvcTotal are made.
ShortenIsNext(t) ==
    /\ Started < MaxSvcTotal
    /\ IF t = 1 THEN TRUE ELSE rpc[t - 1] # "idle"

\* URLs are named in the order in which they are first requested.
UrlIsNext(u) ==
    \/ u = "u1"
    \/ \E t \in Reqs : rpc[t] # "idle" /\ rreq[t].Url = "u1"

GetIsNext(g) ==
    /\ Started < MaxSvcTotal
    /\ IF g = 1 THEN TRUE ELSE gpc[g - 1] # "idle"

\* The steps of the URL shortener with all its endpoints.
NextSvc ==
    \/ \E t \in SvcReqs, u \in SvcUrls, a \in SvcAliases \cup {""} :
           ShortenIsNext(t) /\ UrlIsNext(u) /\ ShortenDecode(t, u, a)
    \/ \E t \in SvcReqs, m \in Methods :
           ShortenIsNext(t) /\ ShortenInvalidMethod(t, m)
    \/ \E t \in Reqs : AutoLock(t)
    \/ \E t \in Reqs : AutoInsertOk(t)
    \/ \E t \in Reqs : AutoInc(t)
    \/ \E t \in Reqs : AutoDupUrl(t)
    \/ \E t \in Reqs : AutoLookup(t)
    \/ \E t \in Reqs : AutoDupAlias(t)
    \/ \E t \in Reqs : AutoError(t)
    \/ \E t \in Reqs : AutoUnlock(t)
    \/ \E t \in Reqs : AutoReturn(t)
    \/ \E t \in Reqs : CustomInsertOk(t)
    \/ \E t \in Reqs : CustomDupUrl(t)
    \/ \E t \in Reqs : CustomLookup(t)
    \/ \E t \in Reqs : CustomDupAlias(t)
    \/ \E t \in Reqs : CustomError(t)
    \/ \E t \in Reqs : ShortenRespond(t)
    \/ \E g \in Gets, m \in Methods :
           GetIsNext(g) /\ ExpandInvalidMethod(g, m)
    \/ \E g \in Gets, a \in GetAliases : GetIsNext(g) /\ ExpandSelectOk(g, a)
    \/ \E g \in Gets, a \in GetAliases :
           GetIsNext(g) /\ ExpandSelectNoRows(g, a)
    \/ \E g \in Gets, a \in GetAliases :
           GetIsNext(g) /\ ExpandSelectError(g, a)
    \/ \E g \in Gets : ExpandUpdateOk(g)
    \/ \E g \in Gets : ExpandUpdateError(g)
    \/ \E g \in Gets : ExpandRespond(g)
    \/ \E g \in Gets, m \in Methods :
           GetIsNext(g) /\ AnalyticsInvalidMethod(g, m)
    \/ \E g \in Gets, a \in GetAliases : GetIsNext(g) /\ AnalyticsOk(g, a)
    \/ \E g \in Gets, a \in GetAliases : GetIsNext(g) /\ AnalyticsNoRows(g, a)
    \/ \E g \in Gets, a \in GetAliases : GetIsNext(g) /\ AnalyticsError(g, a)
    \/ Reboot

\* The URL shortener serving all its endpoints, across reboots.
SpecSvc == Init /\ [][NextSvc]_vars

\* The steps of the goroutine that net/http runs for shorten request t, once
\* the request has been decoded.
ShortenSteps(t) ==
    \/ AutoLock(t)
    \/ AutoInsertOk(t)
    \/ AutoInc(t)
    \/ AutoDupUrl(t)
    \/ AutoLookup(t)
    \/ AutoDupAlias(t)
    \/ AutoError(t)
    \/ AutoUnlock(t)
    \/ AutoReturn(t)
    \/ CustomInsertOk(t)
    \/ CustomDupUrl(t)
    \/ CustomLookup(t)
    \/ CustomDupAlias(t)
    \/ CustomError(t)
    \/ ShortenRespond(t)

\* SpecSvc with the scheduling of Go: a goroutine that can take a step is
\* not left waiting forever.  Requests need not arrive, database statements
\* need not fail and the server need not be rebooted.
SpecSvcFair == SpecSvc /\ \A t \in Reqs : WF_vars(ShortenSteps(t))

(***************************************************************************)
(* Properties of the connection lifecycle.                                 *)
(***************************************************************************)
\* The task has executed line 146: its local Id holds an assigned id.
HasId(c) == pc[c] \notin {"lock", "itoa"}

\* AcceptConnection has returned to the task without an error.
Connected(c) == pc[c] \in {"defer", "serve", "joining", "done"}

\* C1: under any interleaving of concurrent AcceptConnection calls no two
\* calls are assigned the same session id, and an assigned id is never
\* assigned again: NextId only grows and lies above every id handed out
\* (at the id being handed out until line 147 has run).
C1_IdsNeverReused ==
    /\ [](\A c, d \in Conns :
             c # d /\ HasId(c) /\ HasId(d) => Id[c] # Id[d])
    /\ [](\A c \in Conns : HasId(c) =>
             \E n \in 0..NextId :
                 /\ Id[c] = Itoa(n)
                 /\ n = NextId => pc[c] = "inc")
    /\ [][NextId' >= NextId]_vars

\* Two calls of AcceptConnection have both been assigned an id.
C1_Witness ==
    \E c, d \in Conns : c # d /\ HasId(c) /\ HasId(d)

\* C2: the n-th session registered in the Session Table has id n-1, for
\* every sequence of Connect attempts, failed handshakes included.
C2_RegisteredSequentially ==
    \A n \in 1..Len(registered) : registered[n] = Itoa(n - 1)

\* C3: Connect fails only when the handshake fails (no connection was
\* made), and a failed AcceptConnection registers no session: when it
\* returns, the Session Table equals the table it found on entry, and the
\* id it consumed never becomes a key.
C3_FailedConnectRegistersNothing ==
    \A c \in Conns :
        /\ pc[c] \in {"ret_err", "failed"} <=> err[c]
        /\ err[c] => conn[c] = "none" /\ Id[c] \notin DOMAIN Users
        /\ Connected(c) => conn[c] # "none"
        /\ pc[c] = "ret_err" => Users = usersAtEntry[c]

\* A handshake has failed after another session was registered, and the
\* failed call is about to return.
C3_Witness ==
    \E c \in Conns : pc[c] = "ret_err" /\ Users # <<>>

\* C4: every successful Connect registers exactly one new entry, keyed by
\* the assigned id, with no room, with a transport handle and an outbound
\* channel no other entry has; no existing entry is modified.
C4_ConnectRegistersOneEntry ==
    [][\A c \in Conns :
          pc[c] = "storing" /\ pc'[c] = "ret_ok" =>
              /\ Id[c] \notin DOMAIN Users
              /\ DOMAIN Users' = DOMAIN Users \cup {Id[c]}
              /\ \A k \in DOMAIN Users : Users'[k] = Users[k]
              /\ Users'[Id[c]].Id = Id[c]
              /\ Users'[Id[c]].Room = ""
              /\ Users'[Id[c]].Connection = c
              /\ conn'[c] = "open"
              /\ Users'[Id[c]].Channel # Nil
              /\ \A k \in DOMAIN Users :
                    /\ Users[k].Connection # Users'[Id[c]].Connection
                    /\ Users[k].Channel # Users'[Id[c]].Channel]_vars

\* Two sessions are registered.
C4_Witness ==
    Cardinality(DOMAIN Users) >= 2

\* C5: after a successful Connect the client is sent a connection message
\* carrying the assigned id, and it is the first message the client gets.
C5_ConnectionMessageFirst ==
    \A c \in Conns :
        /\ sent[c] # <<>> =>
               sent[c][1] = SystemMessage("connection", Id[c], "", "", {}, <<>>)
        /\ pc[c] = "done" => sent[c] # <<>>

\* C6: a session whose connection the deferred Close of ManageConnection
\* has closed is no longer a key of the Session Table.
C6_ClosedSessionRemoved ==
    \A c \in Conns : conn[c] = "closed" => Id[c] \notin DOMAIN Users

\* C7: the Disconnect cleanup has run exactly once for every session whose
\* task has ended: its connection is closed, it is out of the Session Table
\* and out of every room.
C7_CleanupExactlyOnce ==
    \A c \in Conns :
        pc[c] = "done" =>
            /\ conn[c] = "closed"
            /\ Id[c] \notin DOMAIN Users
            /\ \A r \in DOMAIN Rooms : Id[c] \notin Members(Rooms, r)

(***************************************************************************)
(* Properties of the Room Registry.                                        *)
(***************************************************************************)
\* The rooms whose member list holds the session of task c.
RoomsOf(c) == {r \in DOMAIN Rooms : Id[c] \in Members(Rooms, r)}

\* C8: in every reachable state a session is in the member list of room R
\* if and only if its recorded room (UserData.Room) is R, hence in at most
\* one room; members are registered sessions; and once a Join has
\* completed, the recorded room is the room the session joined last.
C8_MembershipMatchesRoom ==
    /\ \A id \in DOMAIN Users : \A r \in DOMAIN Rooms \cup RoomIds :
           id \in Members(Rooms, r) <=> Users[id].Room = r
    /\ \A r \in DOMAIN Rooms : Members(Rooms, r) \subseteq DOMAIN Users
    /\ \A c \in Conns : Connected(c) => Cardinality(RoomsOf(c)) <= 1
    /\ \A c \in Conns :
           pc[c] \in {"serve", "done"} => Users[Id[c]].Room = lastJoined[c]

\* A session has joined room "a" and then room "b".
C8_Witness ==
    \E c \in Conns :
        /\ pc[c] = "serve"
        /\ lastJoined[c] = "b"
        /\ Len(sent[c]) >= 2
        /\ sent[c][1].action = "join" /\ sent[c][1].room = "a"
        /\ RoomsOf(c) = {"b"}

\* The step is the one in which the session of task c, the only member of
\* room r, leaves r, moves to another room or disconnects.
LastMemberGoes(c, r) ==
    /\ Connected(c)
    /\ r \in DOMAIN Rooms
    /\ Rooms[r].Participants = <<Id[c]>>
    /\ \/ pc[c] = "serve" /\ pc'[c] = "done"
       \/ Users'[Id[c]].Room # r

\* C9: every room of the Room Registry has a non-empty member set, and a
\* room is removed in the same step in which its last member leaves, moves
\* to another room or disconnects.
C9_RoomsNeverEmpty ==
    /\ [](\A r \in DOMAIN Rooms : Members(Rooms, r) # {})
    /\ [][\A c \in Conns : \A r \in RoomIds :
             LastMemberGoes(c, r) => r \notin DOMAIN Rooms']_vars

\* The session of task s is in the middle of a move between two rooms and
\* in the member list of neither.
MissingFromBoth(s) ==
    /\ pc[s] = "joining"
    /\ lastJoined[s] \notin {"", req[s]}
    /\ Id[s] \notin Members(Rooms, lastJoined[s])
    /\ Id[s] \notin Members(Rooms, req[s])

\* The session of task s is in the member lists of two rooms.
InBoth(s) == Connected(s) /\ Cardinality(RoomsOf(s)) >= 2

\* C10: a Join that moves a session between rooms is atomic for every other
\* task: whenever a task reads the registry (ListRooms, ListParticipants),
\* no session is missing from both its old and its new room, or in both.
C10_MoveIsAtomic ==
    [][(\E o \in Conns :
           \/ ListRooms(o)
           \/ \E r \in RoomIds : ListParticipants(o, r))
       => \A s \in Conns : ~MissingFromBoth(s) /\ ~InBoth(s)]_vars

\* A session is in the middle of a move while another session is ready to
\* send a request.
C10_Witness ==
    \E s, o \in Conns :
        s # o /\ MissingFromBoth(s) /\ pc[o] = "serve" /\ ops < MaxOps

(***************************************************************************)
(* Properties of the request handlers.                                     *)
(***************************************************************************)
\* The last frame written to connection h.
LastSent(h) == sent[h][Len(sent[h])]

\* C11: a Join never fails: it ends with the session a member of the room
\* asked for and with the join confirmation (never an error) as the reply;
\* a Join of a room that does not exist creates it with the joining session
\* as its only member; a Join of the room the session is already in changes
\* nothing, and no member list ever holds a session more than once.
C11_JoinNeverFailsIdempotent ==
    /\ [](\A r \in DOMAIN Rooms :
             Len(Rooms[r].Participants) = Cardinality(Members(Rooms, r)))
    /\ [][\A c \in Conns :
             pc[c] = "joining" /\ pc'[c] = "serve" =>
                 LET r == req[c]
                 IN  /\ r \in DOMAIN Rooms'
                     /\ Id[c] \in Members(Rooms', r)
                     /\ r \notin DOMAIN Rooms =>
                            Rooms'[r].Participants = <<Id[c]>>
                     /\ Users[Id[c]].Room = r => Rooms' = Rooms
                     /\ Len(sent'[c]) = Len(sent[c]) + 1
                     /\ sent'[c][Len(sent'[c])] =
                            SystemMessage("join", "", r, "", {},
                                          Rooms'[r].Participants)]_vars

\* A session has joined room "a" twice in a row and is its only member.
C11_Witness ==
    \E c \in Conns :
        /\ pc[c] = "serve"
        /\ Len(sent[c]) >= 2
        /\ sent[c][1].action = "join" /\ sent[c][1].room = "a"
        /\ sent[c][2].action = "join" /\ sent[c][2].room = "a"
        /\ "a" \in DOMAIN Rooms
        /\ Rooms["a"].Participants = <<Id[c]>>

\* C12: a Leave by a session that is in no room answers that session, and
\* only that session, with the error "user was not in a room" and changes
\* nothing: the Session Table and the Room Registry are as they were.
C12_LeaveOutsideRoomIsError ==
    [][\A c \in Conns :
          LeaveNoRoom(c) =>
              /\ Users[Id[c]].Room = ""
              /\ Users' = Users
              /\ Rooms' = Rooms
              /\ sent'[c] = Append(sent[c], ErrorFrame("user was not in a room"))
              /\ \A h \in Conns \ {c} : sent'[h] = sent[h]
              /\ pc' = pc /\ conn' = conn]_vars

\* A session in no room was answered "user was not in a room" while another
\* session is connected and in a room.
C12_Witness ==
    \E c, d \in Conns :
        /\ c # d
        /\ sent[c] # <<>>
        /\ LastSent(c) = ErrorFrame("user was not in a room")
        /\ conn[d] = "open"
        /\ RoomsOf(d) # {}

\* Target id t is the id of no session on the server: it is not a key of
\* the Session Table (never issued, or issued to a failed handshake), or its
\* session has disconnected.
NotOnServer(t) ==
    \/ t \notin DOMAIN Users
    \/ \E d \in Conns : HasId(d) /\ Id[d] = t /\ conn[d] = "closed"

\* C13: a DirectMessage whose target is not on the server (an id never
\* issued, or the id of a session that has disconnected) is answered with
\* the error "user <id> is not on the server" to the sender and nothing is
\* written to any other session.
C13_AbsentTargetIsError ==
    [][\A c \in Conns, t \in TargetIds, b \in Bodies :
          DirectMessage(c, t, b) /\ NotOnServer(t) =>
              /\ sent'[c] = Append(sent[c],
                     ErrorFrame("user " \o t \o " is not on the server"))
              /\ \A h \in Conns \ {c} : sent'[h] = sent[h]]_vars

C16_DisconnectLeavesRoom ==
    [][\A c \in Conns : \A r \in RoomIds :
          pc[c] = "serve" /\ pc'[c] = "done" /\ r \in RoomsOf(c) =>
              /\ Id[c] \notin Members(Rooms', r)
              /\ Users'[Id[c]].Room # r
              /\ Members(Rooms, r) = {Id[c]} => r \notin DOMAIN Rooms'
              /\ \A d \in Conns \ {c} :
                    Id[d] \in Members(Rooms, r) /\ conn[d] = "open" =>
                        sent'[d] = Append(sent[d],
                            SystemMessage("leave", Id[c], r, "", {}, <<>>))]_vars

\* C17: an inbound frame that ReadJSON cannot decode, or whose action is
\* none of the eight values of ACTIONS, is dropped: the session is sent an
\* error message and nothing else is written, the session stays connected
\* and registered, and the Session Table and the Room Registry are as they
\* were.
C17_MalformedFrameDropped ==
    /\ [](\A raw \in BadFrames :
             ReadJSON(raw).err \/ ReadJSON(raw).Msg.action \notin Actions)
    /\ [](Cardinality(Actions) = 8)
    /\ [][\A c \in Conns, raw \in BadFrames :
             Malformed(c, raw) =>
                 /\ Len(sent'[c]) = Len(sent[c]) + 1
                 /\ sent'[c][Len(sent'[c])].action = "error"
                 /\ \A h \in Conns \ {c} : sent'[h] = sent[h]
                 /\ pc'[c] = "serve"
                 /\ conn'[c] = "open"
                 /\ Id[c] \in DOMAIN Users'
                 /\ Users' = Users
                 /\ Rooms' = Rooms]_vars

\* A session that is in a room was sent the error for a frame that is no
\* request and is still being served.
C17_Witness ==
    \E c \in Conns :
        /\ pc[c] = "serve"
        /\ conn[c] = "open"
        /\ RoomsOf(c) # {}
        /\ sent[c] # <<>>
        /\ LastSent(c) = ErrorFrame("malformed action")

(***************************************************************************)
(* Properties of the URL shortener.                                        *)
(***************************************************************************)
\* Every request made so far asks for an automatic alias, no two of them
\* for the same URL, and no database statement has failed unexpectedly.
AutomaticOnly ==
    \A t \in Reqs :
        rpc[t] # "idle" =>
            /\ rreq[t].Alias = ""
            /\ rret[t].err # OtherDbError
            /\ \A u \in Reqs \ {t} :
                  rpc[u] # "idle" => rreq[u].Url # rreq[t].Url

\* C20: when automatic shorten requests for distinct URLs run concurrently
\* on a fresh database, every request succeeds and the k-th request to
\* finish ShortenAutomatic has been assigned the decimal string of k-1, so
\* that the n aliases are pairwise distinct and are exactly "0".."n-1" in
\* the order in which the requests finish.
C20_AliasesInFinishOrder ==
    AutomaticOnly =>
        /\ \A t \in Reqs : rpc[t] = "done" => rresp[t].status = 200
        /\ \A k \in 1..Len(finished) :
              /\ rret[finished[k]].err = ""
              /\ rret[finished[k]].alias = Itoa(k - 1)

(***************************************************************************)
(* Properties of the path of a frame.                                      *)
(***************************************************************************)
\* The private messages of the client of connection s that have been
\* written to connection r, in the order in which they were written.
FramesFrom(r, s) ==
    SelectSeq(sent[r],
              LAMBDA f : /\ f.action = "private_message"
                         /\ f.user_id = Id[s]
                         /\ \E k \in 1..MaxOps : f.message = Body(s, k))

\* The place of the frame with the given body in the frames that arrived
\* from the client of connection s.
Pos(s, body) ==
    CHOOSE k \in 1..Len(arrived[s]) : arrived[s][k].message = body

\* C18: the frames of one session are dispatched strictly in the order in
\* which they arrived (the frames dispatched, followed by the frames still
\* waiting, are the frames that arrived), and the messages of one sender
\* reach one recipient in the order in which the sender sent them.
C18_ArrivalOrderKept ==
    /\ \A c \in Conns : arrived[c] = handled[c] \o inbox[c]
    /\ \A s, r \in Conns :
           LET fs == FramesFrom(r, s)
           IN  \A i, j \in 1..Len(fs) :
                   i < j => Pos(s, fs[i].message) <= Pos(s, fs[j].message)

\* Two messages of one session have been written, one after the other, to
\* another session.
C18_Witness ==
    \E s, r \in Conns :
        /\ s # r
        /\ Len(FramesFrom(r, s)) >= 2
        /\ FramesFrom(r, s)[1].message # FramesFrom(r, s)[2].message

\* C19: a delivery never makes the delivering task wait: whenever a task is
\* about to send a frame on a session's Channel, the send can complete,
\* whether or not the client of that session reads what is written to it.
C19_DeliveryNeverBlocks ==
    \A c \in Conns :
        pc[c] = "sending" => SendEnabled(Head(pending[c]).to)

(***************************************************************************)
(* Properties of the URL shortener.                                        *)
(***************************************************************************)
\* The decimal strings of the integers from..(to - 1) are all aliases.
AllTaken(from, to) ==
    \A m \in AliasNumbers : (from <= m /\ m < to) => Itoa(m) \in DOMAIN aliases

UrlHasAliasMessage(url) ==
    "URL already has an alias " \o GetAliasByURL(url) \o "."

\* C22: a shorten request, automatic or custom, whose INSERT is made when
\* the URL already has an alias creates no mapping, leaves every row as it
\* is, and (unless the database fails or the server stops) reports the
\* bad request error whose message names the existing alias, which is
\* answered with status 400.
C22_DuplicateUrlNamesAlias ==
    [][\A t \in Reqs :
          /\ (/\ rpc[t] \in {"auto_insert", "custom_insert"}
              /\ UrlTaken(rreq[t].Url)
              /\ rpc'[t] \notin {rpc[t], "killed"}
              /\ rret'[t].err # OtherDbError) =>
                 /\ aliases' = aliases
                 /\ rpc'[t] \in {"auto_lookup", "custom_lookup"}
          /\ (/\ rpc[t] \in {"auto_lookup", "custom_lookup"}
              /\ rpc'[t] \notin {rpc[t], "killed"}) =>
                 /\ aliases' = aliases
                 /\ rret'[t].err_msg = UrlHasAliasMessage(rreq[t].Url)
          /\ (/\ rpc[t] = "respond"
              /\ rpc'[t] = "done"
              /\ rret[t].err = DUPLICATE_URL_VIOLATION) =>
                 rresp'[t] = Response(400, "", "", rret[t].err_msg)]_vars

\* C23: a custom shorten request whose INSERT is made when its alias is in
\* use for another URL creates no mapping, leaves every row as it is (the
\* alias keeps its URL) and, unless the database fails unexpectedly or the
\* server is stopped, returns the error "Alias is already in use", which is
\* answered with status 400.
C23_TakenAliasIsRefused ==
    [][\A t \in Reqs :
          /\ (/\ rpc[t] = "custom_insert"
              /\ AliasTaken(rreq[t].Alias)
              /\ aliases[rreq[t].Alias].URL # rreq[t].Url
              /\ rpc'[t] \notin {rpc[t], "killed"}
              /\ rret'[t].err # OtherDbError) =>
                 /\ aliases' = aliases
                 /\ rpc'[t] = "respond"
                 /\ rret'[t] = Returned("", "Alias is already in use",
                                        DUPLICATE_ALIAS_VIOLATION)
          /\ (/\ rpc[t] = "respond"
              /\ rpc'[t] = "done"
              /\ rret[t].err = DUPLICATE_ALIAS_VIOLATION) =>
                 rresp'[t] = Response(400, "", "", "Alias is already in use")]_vars

\* A custom request for a new URL was refused because its alias belongs to
\* another URL, which it still belongs to.
C23_Witness ==
    \E t \in Reqs :
        /\ rpc[t] = "done"
        /\ rreq[t].Alias # ""
        /\ rresp[t] = Response(400, "", "", "Alias is already in use")
        /\ AliasTaken(rreq[t].Alias)
        /\ aliases[rreq[t].Alias].URL # rreq[t].Url
        /\ ~UrlTaken(rreq[t].Url)

\* The shorten requests answered with a mapping.
Shortened == {t \in Reqs : rresp[t].status = 200}

\* The GET requests on the expand/ endpoint.
Expands == {g \in Gets : greq[g].kind = "expand"}

\* The GET requests on the analytics/ endpoint.
AnalyticsReqs == {g \in Gets : greq[g].kind = "analytics"}

Answered(a) ==
    Cardinality({g \in Expands : greq[g].alias = a /\ gresp[g].status = 200})

\* The expand requests for alias a whose UPDATE has executed.
Counted(a) == Cardinality({g \in gupdated : greq[g].alias = a})

\* The expand requests for alias a that have been received.
Received(a) == Cardinality({g \in Expands : greq[g].alias = a})

\* C25 as amended: the expansion count of an alias is the number of expand
\* requests for it whose UPDATE has executed, which is never less than the
\* number of expands answered with the URL and equals it when no expand of
\* that alias is between its UPDATE and its response; a new row starts at
\* 0; a step changes a count only by raising it by exactly 1, and only the
\* UPDATE of an expand of that alias does; analytics reports the count as
\* it is when it reads it and changes nothing.
C25_CountIsUpdatesDone ==
    /\ [](\A a \in DOMAIN aliases :
            /\ aliases[a].Expansions = Counted(a)
            /\ Answered(a) <= aliases[a].Expansions
            /\ (\A g \in gupdated :
                    greq[g].alias = a => gresp[g].status = 200) =>
                   aliases[a].Expansions = Answered(a))
    /\ [][/\ \A a \in DOMAIN aliases' \ DOMAIN aliases :
               aliases'[a].Expansions = 0
          /\ \A a \in DOMAIN aliases :
               \/ aliases'[a].Expansions = aliases[a].Expansions
               \/ /\ aliases'[a].Expansions = aliases[a].Expansions + 1
                  /\ \E g \in Expands :
                         /\ greq[g].alias = a
                         /\ gpc[g] = "expand_update"
                         /\ gpc'[g] = "expand_respond"
          /\ \A g \in Gets :
               (/\ gresp[g] = NoResponse
                /\ gresp'[g].status = 200
                /\ greq'[g].kind = "analytics") =>
                   /\ aliases' = aliases
                   /\ gresp'[g].Expansions = aliases[greq'[g].alias].Expansions
                   /\ gresp'[g].Url = aliases[greq'[g].alias].URL]_vars

\* Two expands of alias "0" were answered, the count is 2, and an analytics
\* request saw 1 on the way.
C25_Witness ==
    /\ "0" \in DOMAIN aliases
    /\ aliases["0"].Expansions = 2
    /\ Answered("0") = 2
    /\ \E g \in AnalyticsReqs :
           /\ gresp[g].status = 200
           /\ gresp[g].Expansions = 1

\* C25 as stated: the expansion count of every alias equals the number of
\* expand requests for it that have completed successfully.
C25_CountIsExpandsCompleted ==
    \A a \in DOMAIN aliases : aliases[a].Expansions = Answered(a)

\* C26: a GET on expand/ or analytics/ whose alias has no row when the
\* request reads the table is answered with status 400 and the message
\* that the alias is not mapped (or with 500 when the database fails), and
\* its handler ends there: the table, and so every mapping and every
\* expansion count, and nextAlias are as they were.
C26_UnmappedAliasIsRefused ==
    [][\A g \in Gets :
          (/\ gpc[g] = "idle"
           /\ gpc'[g] # "idle"
           /\ greq'[g].method = "GET"
           /\ greq'[g].alias \notin DOMAIN aliases
           /\ gresp'[g].status # 500) =>
              /\ gpc'[g] = "done"
              /\ gresp'[g].status = 400
              /\ gresp'[g].message =
                     IF greq'[g].kind = "expand"
                     THEN "Cannot expand " \o greq'[g].alias \o ", not mapped"
                     ELSE "Cannot get analytics for " \o greq'[g].alias
                              \o ", not mapped"
              /\ aliases' = aliases
              /\ nextAlias' = nextAlias
              /\ gupdated' = gupdated]_vars

\* An expand and an analytics request for an alias without a row were both
\* refused, and the table is still empty.
C26_Witness ==
    \E g \in Expands, h \in AnalyticsReqs :
        /\ gresp[g].status = 400
        /\ gresp[h].status = 400
        /\ greq[g].alias \notin DOMAIN aliases
        /\ greq[h].alias \notin DOMAIN aliases
        /\ aliases = <<>>
        /\ nextAlias = 0

\* The integers whose decimal string is an automatically assigned alias.
AutomaticNumbers ==
    {n \in AliasNumbers :
        Itoa(n) \in DOMAIN aliases /\ aliases[Itoa(n)].Automatic}

\* C27: a reboot leaves every row of the table, URL and expansion count,
\* as it was, and sets nextAlias to one more than the largest automatically
\* assigned alias, 0 if there is none; and no step, before or after a
\* reboot, gives an existing alias to another URL or lowers its count, so
\* an alias assigned after the reboot is never one assigned before it and
\* the rows written before the reboot are the ones served after it.
C27_StateSurvivesReboot ==
    /\ [][/\ boots' # boots =>
               /\ aliases' = aliases
               /\ nextAlias' =
                      IF AutomaticNumbers = {} THEN 0
                      ELSE 1 + CHOOSE m \in AutomaticNumbers :
                                   \A n \in AutomaticNumbers : n <= m
          /\ \A a \in DOMAIN aliases :
               /\ a \in DOMAIN aliases'
               /\ aliases'[a].URL = aliases[a].URL
               /\ aliases'[a].Automatic = aliases[a].Automatic
               /\ aliases'[a].Expansions >= aliases[a].Expansions]_vars
    /\ [](boots > 0 =>
            /\ \A g \in Expands :
                   gresp[g].status = 200 =>
                       /\ greq[g].alias \in DOMAIN aliases
                       /\ gresp[g].Url = aliases[greq[g].alias].URL
            /\ \A g \in AnalyticsReqs :
                   gresp[g].status = 200 =>
                       /\ greq[g].alias \in DOMAIN aliases
                       /\ gresp[g].Url = aliases[greq[g].alias].URL
                       /\ gresp[g].Expansions <= aliases[greq[g].alias].Expansions)

\* The server was stopped when an automatic request had inserted alias "0"
\* and not yet added 1 to nextAlias; after the reboot another automatic
\* request was given alias "1", and "0" is still mapped to the first URL.
C27_Witness ==
    \E t \in Reqs, t2 \in Reqs :
        /\ boots = 1
        /\ rpc[t] = "killed"
        /\ ralias[t] = "0"
        /\ rret[t].alias = ""
        /\ "0" \in DOMAIN aliases
        /\ aliases["0"].URL = rreq[t].Url
        /\ rreq[t2].Alias = ""
        /\ rresp[t2] = Response(200, rreq[t2].Url, "1", "")
        /\ rreq[t2].Url # rreq[t].Url
        /\ nextAlias = 2

\* C28: a request whose method is not the one of its endpoint (POST on
\* shorten, GET on expand and analytics) is answered with status 405 and
\* "Invalid request method" in the one step its handler takes, which leaves
\* the table (mappings and expansion counts), nextAlias and nextAliasLock
\* as they are; and a request answered 405 never executed an UPDATE.
C28_WrongMethodIsRejected ==
    /\ [][/\ \A g \in Gets :
               (/\ gpc[g] = "idle"
                /\ gpc'[g] # "idle"
                /\ greq'[g].method # "GET") =>
                   /\ gpc'[g] = "done"
                   /\ gresp'[g] = InvalidMethodResponse
                   /\ aliases' = aliases
                   /\ nextAlias' = nextAlias
                   /\ nextAliasLock' = nextAliasLock
                   /\ gupdated' = gupdated
          /\ \A t \in Reqs :
               (/\ rresp[t] = NoResponse
                /\ rresp'[t].status = 405) =>
                   /\ rpc[t] = "idle"
                   /\ rpc'[t] = "done"
                   /\ rresp'[t] = InvalidMethodResponse
                   /\ aliases' = aliases
                   /\ nextAlias' = nextAlias
                   /\ nextAliasLock' = nextAliasLock]_vars
    /\ [](/\ \A g \in Gets :
               gresp[g].status = 405 <=>
                   (gpc[g] # "idle" /\ greq[g].method # "GET")
          /\ \A g \in Gets : gresp[g].status = 405 => g \notin gupdated
          /\ \A t \in Reqs :
               rresp[t].status = 405 =>
                   /\ rreq[t] = ShortenRequest("", "")
                   /\ rret[t] = Returned("", "", "")
                   /\ ralias[t] = "")

\* A request on each endpoint was rejected for its method while alias "0"
\* is mapped and nextAlias is 1.
C28_Witness ==
    \E t \in Reqs, g \in Expands, h \in AnalyticsReqs :
        /\ rresp[t].status = 405
        /\ gresp[g].status = 405
        /\ gresp[h].status = 405
        /\ "0" \in DOMAIN aliases
        /\ aliases["0"].Expansions = 0
        /\ nextAlias = 1

\* C29: no expansion is lost although Expand holds no lock between its
\* SELECT and its UPDATE.  In every state the count of an alias is at least
\* the number of expands of it already answered to users and at most the
\* number of expands of it received; once every expand received for the
\* alias has been answered with the URL the count is their number; and the
\* value an analytics request reads lies between the expands answered and
\* the expands received at that moment.
C29_NoExpansionLost ==
    /\ [](\A a \in DOMAIN aliases :
            /\ Answered(a) <= aliases[a].Expansions
            /\ aliases[a].Expansions <= Received(a)
            /\ (\A g \in Expands :
                    greq[g].alias = a => gresp[g].status = 200) =>
                   aliases[a].Expansions = Received(a))
    /\ [][\A g \in Gets :
            (/\ gresp[g] = NoResponse
             /\ gresp'[g].status = 200
             /\ greq'[g].kind = "analytics") =>
                /\ Answered(greq'[g].alias) <= gresp'[g].Expansions
                /\ gresp'[g].Expansions <= Received(greq'[g].alias)]_vars

\* Two expands of alias "0" are in flight together, both past their UPDATE
\* and neither answered; the count is 2, and an analytics request that ran
\* between the two UPDATEs saw 1.
C29_Witness ==
    \E g \in Expands, h \in Expands, k \in AnalyticsReqs :
        /\ g # h
        /\ greq[g].alias = "0"
        /\ greq[h].alias = "0"
        /\ gpc[g] = "expand_respond"
        /\ gpc[h] = "expand_respond"
        /\ aliases["0"].Expansions = 2
        /\ Answered("0") = 0
        /\ gresp[k].status = 200
        /\ gresp[k].Expansions = 1

\* C30: in every reachable state the mapping is one-to-one.  No URL has
\* two aliases; no alias has two URLs (a row, once written, keeps its URL,
\* and an INSERT never lands on an alias that has a row); and the alias of
\* every success response, automatic or custom, is mapped to exactly the
\* URL of its request, whatever the interleaving of the requests that hold
\* nextAliasLock and those that do not.
C30_MappingOneToOne ==
    /\ [](/\ \A a \in DOMAIN aliases, b \in DOMAIN aliases :
               aliases[a].URL = aliases[b].URL => a = b
          /\ \A t \in Shortened :
               /\ rresp[t].Alias \in DOMAIN aliases
               /\ aliases[rresp[t].Alias].URL = rreq[t].Url
               /\ rresp[t].Url = rreq[t].Url
          /\ \A t \in Shortened, u \in Shortened :
               rresp[t].Alias = rresp[u].Alias => t = u)
    /\ [][\A a \in DOMAIN aliases :
            /\ a \in DOMAIN aliases'
            /\ aliases'[a].URL = aliases[a].URL
            /\ aliases'[a].Automatic = aliases[a].Automatic]_vars

\* Two automatic requests and a custom one, interleaved, were all answered
\* with a mapping: three URLs under three aliases.
C30_Witness ==
    /\ Cardinality(DOMAIN aliases) = 3
    /\ Cardinality(Shortened) = 3
    /\ \E t \in Shortened : rreq[t].Alias # ""
    /\ \E t \in Shortened, u \in Shortened :
           /\ t # u
           /\ rreq[t].Alias = ""
           /\ rreq[u].Alias = ""
    /\ finished # <<>>
    /\ \E t \in Reqs : finished[1] = t /\ rresp[t].Alias # "0"

\* The requests that are inside ShortenAutomatic: between its call and its
\* return to Shorten.
InShortenAutomatic ==
    {t \in Reqs : rpc[t] \in {"auto_lock", "auto_insert", "auto_inc",
                              "auto_lookup", "auto_unlock", "auto_return"}}

\* The requests that hold nextAliasLock may hold it: between Lock and the
\* deferred Unlock.
InCriticalSection ==
    {t \in Reqs : rpc[t] \in {"auto_insert", "auto_inc", "auto_lookup",
                              "auto_unlock"}}

TakesStep(t) == rpc'[t] # rpc[t] \/ riter'[t] # riter[t]

\* C32: while the server runs (in every step that is not a reboot)
\* nextAlias does not decrease, and a step that changes it adds 1 and is a
\* step of an automatic request inside ShortenAutomatic that holds
\* nextAliasLock, no other request moving; so custom shortens, expands and
\* analytics leave it unchanged.  Whenever no request is between its INSERT
\* and its increment, in particular whenever nextAliasLock is free and in
\* the state that each Unlock of ShortenAutomatic leaves, nextAlias is
\* greater than every automatically assigned alias of the table.  Every row
\* of the table was inserted by one request whose INSERT succeeded, and a
\* call of ShortenAutomatic that ends in the duplicate-URL error has
\* inserted none, whatever it has added to nextAlias.
C32_NextAliasOnlyGrows ==
    /\ [][boots' = boots =>
            /\ nextAlias' >= nextAlias
            /\ nextAlias' # nextAlias =>
                   /\ nextAlias' = nextAlias + 1
                   /\ gpc' = gpc
                   /\ \E t \in Reqs :
                          /\ rreq[t].Alias = ""
                          /\ nextAliasLock = t
                          /\ rpc[t] \in {"auto_insert", "auto_inc"}
                          /\ TakesStep(t)
                          /\ \A u \in Reqs \ {t} : ~TakesStep(u)]_vars
    /\ []((\A t \in Reqs : rpc[t] # "auto_inc") =>
              \A n \in AutomaticNumbers : n < nextAlias)
    /\ [](nextAliasLock = Nil => \A n \in AutomaticNumbers : n < nextAlias)
    /\ [](/\ Cardinality(DOMAIN aliases) = Cardinality(rinserted)
          /\ \A t \in Reqs :
                 (rreq[t].Alias = ""
                    /\ rret[t].err = DUPLICATE_URL_VIOLATION) =>
                     t \notin rinserted)
    /\ [][\A t \in Reqs :
            (rpc[t] = "auto_unlock" /\ rpc'[t] = "auto_return") =>
                \A n \in AutomaticNumbers : n < nextAlias']_vars

\* An automatic request for a URL that has the custom alias "0" failed on
\* alias "0", added 1 to nextAlias, failed on the URL and returned the
\* duplicate-URL error: nextAlias is 1 and the table still has its one row.
C32_Witness ==
    \E t \in Reqs :
        /\ rreq[t].Alias = ""
        /\ rpc[t] = "respond"
        /\ rret[t].err = DUPLICATE_URL_VIOLATION
        /\ riter[t] = 2
        /\ nextAlias = 1
        /\ DOMAIN aliases = {"0"}
        /\ ~aliases["0"].Automatic
        /\ aliases["0"].URL = rreq[t].Url
        /\ rinserted # {} /\ t \notin rinserted

\* C32 as stated: when a call of ShortenAutomatic returns to Shorten,
\* nextAlias is greater than every automatically assigned alias of the
\* table.
C32_GreaterAfterEveryReturn ==
    [][\A t \in Reqs :
         (rpc[t] = "auto_return" /\ rpc'[t] = "respond") =>
             \A n \in AutomaticNumbers : n < nextAlias]_vars

(***************************************************************************)
(* Properties of the locks of the relay.                                   *)
(***************************************************************************)
\* The tasks that are inside AcceptConnection between Lock (line 143) and
\* the deferred Unlock (line 144).
InAccept ==
    {c \in Conns : pc[c] \in {"itoa", "inc", "upgrade", "ret_err", "store",
                              "storing", "ret_ok"}}

\* The task reads server.Users[Id] at line 169 in this step.
ReadsTable(c) == pc[c] = "defer" /\ (pc'[c] = "serve" \/ crashed')

\* C33: every write of the Session Table is made by the task that holds
\* UsersLock, and every read of it too: the task that reads
\* server.Users[Id] at line 169 holds UsersLock, and no other task is
\* inside the store of line 160 at that moment.
C33_TableAccessUnderLock ==
    [][/\ (Users' # Users \/ mapWriting' # mapWriting) =>
              \E c \in Conns : UsersLock = c /\ pc[c] \in {"store", "storing"}
       /\ \A c \in Conns :
              ReadsTable(c) => (UsersLock = c /\ ~mapWriting)]_vars

\* The part of C33 that holds: the Session Table is written only by the
\* task that holds UsersLock, inside AcceptConnection.
C33_WritesUnderLock ==
    [][(Users' # Users \/ mapWriting' # mapWriting) =>
           \E c \in Conns : UsersLock = c /\ pc[c] \in {"store", "storing"}]_vars

\* A task is about to read the Session Table at line 169 while another task
\* is inside the store of line 160.
C33_RaceReached ==
    \E c, d \in Conns : c # d /\ pc[c] = "defer" /\ pc[d] = "storing"

\* C34: AcceptConnection releases UsersLock on both of its exit paths.  The
\* step that returns, with the error or without, is taken by the holder of
\* the lock and leaves the lock free; a task that has returned does not hold
\* it; the lock is free whenever no task is inside AcceptConnection, so a
\* Connect attempt that comes after a failed handshake can take it; and from
\* Lock to the return the task holds the lock, so at most one task is
\* inside AcceptConnection, the handshake included, at any time.
C34_LockReleasedOnBothPaths ==
    /\ [][\A c \in Conns :
            (pc[c] \in {"ret_err", "ret_ok"} /\ pc'[c] # pc[c]) =>
                /\ UsersLock = c
                /\ UsersLock' = Nil
                /\ pc[c] = "ret_err" => err[c] /\ pc'[c] = "failed"
                /\ pc[c] = "ret_ok" => ~err[c] /\ pc'[c] = "defer"]_vars
    /\ [](\A c \in Conns : c \in InAccept <=> UsersLock = c)
    /\ [](InAccept = {} <=> UsersLockFree)
    /\ [](Cardinality(InAccept) <= 1)
    /\ [][\A c \in Conns :
            (pc[c] = "lock" /\ pc'[c] # "lock") =>
                /\ UsersLockFree
                /\ \A d \in Conns : pc[d] # "upgrade"]_vars

\* A handshake has failed and its call has returned, and the next Connect
\* attempt holds the lock and is in its own handshake.
C34_Witness ==
    \E c, d \in Conns :
        /\ pc[c] = "failed"
        /\ Id[c] = "0"
        /\ pc[d] = "upgrade"
        /\ Id[d] = "1"
        /\ UsersLock = d

\* The Connect attempts that have taken their id: they have executed
\* server.NextId += 1 (line 147).
Attempts == {c \in Conns : pc[c] \notin {"lock", "itoa", "inc"}}

C36_TaskEndsWithConnectionClosed ==
    \A c \in Conns :
        Connected(c) ~>
            (/\ pc[c] = "done"
             /\ conn[c] = "closed"
             /\ UsersLock # c
             /\ RoomsLock # c)

\* The part of C36 that holds: the task of a connected session ends with no
\* lock held, and with its connection closed when the read of line 169 found
\* its entry, unless the process has been stopped by the race of that read.
C36_TaskEndsUnlessRace ==
    \A c \in Conns :
        Connected(c) ~>
            \/ crashed
            \/ /\ pc[c] = "done"
               /\ UsersLock # c
               /\ RoomsLock # c
               /\ deferred[c] # Nil => conn[c] = "closed"

\* A task has ended and its connection is still open: the deferred Close
\* was called on the nil connection of the zero UserData.
C36_EndedWithConnectionOpen ==
    \E c \in Conns : pc[c] = "done" /\ conn[c] = "open" /\ deferred[c] = Nil

====
